---- MODULE Spec2Model ----
(***************************************************************************)
(* A model of the crawl core of financial-news-collector:                  *)
(*   - processors/deduplicator.py  (Deduplicator)                          *)
(*   - scheduler.py                (NewsScheduler: run_daily_crawl, ...)   *)
(*   - database.py                 (Database: the article store)           *)
(* Strings whose characters matter (titles, sources, summaries, the text   *)
(* that is hashed) are sequences of one-character strings.  An Optional    *)
(* value is a sequence of length at most one: << >> is None, <<v>> is v.   *)
(***************************************************************************)
EXTENDS Integers, Sequences, FiniteSets, TLC

VARIABLES
    seen_urls,      \* Deduplicator._seen_urls   : set of URLs
    seen_hashes,    \* Deduplicator._seen_hashes : set of content hashes
    title_index,    \* Deduplicator._title_index : normalized title -> list of URLs
    returned,       \* history: every article a deduplicate call has returned, in order
    lastOp,         \* history: the last call made on the object under test, with its result
    nCalls,         \* history: number of calls made so far
    store,          \* Database: table news_articles, rows in insertion order
    crawl_history,  \* Database: table crawl_history, rows in insertion order
    now,            \* the clock, in days
    config,         \* Config: the source list of websites.yaml
    running,        \* NewsScheduler._running
    sched,          \* NewsScheduler.scheduler (the BackgroundScheduler)
    run,            \* per thread: the frame of run_daily_crawl it executes
    nRuns           \* history: number of runs started so far

dedupVars == <<seen_urls, seen_hashes, title_index>>
callVars == <<returned, lastOp, nCalls>>
orchVars == <<store, crawl_history, now, config, running, sched, run, nRuns>>
vars == <<seen_urls, seen_hashes, title_index, returned, lastOp, nCalls,
          store, crawl_history, now, config, running, sched, run, nRuns>>

(***************************************************************************)
(* Bounds of the model.                                                    *)
(***************************************************************************)
MaxTitleLen == 3        \* longest title drawn for add_seen / is_seen
MaxBatch == 2           \* longest article list passed to one deduplicate call
MaxCalls == 3           \* calls made on one Deduplicator

(***************************************************************************)
(* Characters.  Python's \w is letters, digits and the underscore; \s is   *)
(* whitespace; everything else is removed by re.sub(r'[^\w\s]', '', t).    *)
(***************************************************************************)
UpperChars == {"A"}
LowerChars == {"a"}
SpaceChars == {" "}
PunctChars == {"!"}
Alphabet == UpperChars \cup LowerChars \cup SpaceChars \cup PunctChars

IsWordChar(c) == c \in UpperChars \cup LowerChars \cup {"_", "b", "c", "x", "y"}
IsSpaceChar(c) == c \in SpaceChars \cup {"\t"}

\* str.lower() on one character
LowerChar(c) == IF c = "A" THEN "a" ELSE c

Lower(s) == [i \in 1..Len(s) |-> LowerChar(s[i])]

\* re.sub(r'[^\w\s]', '', s): keep word characters and whitespace
RECURSIVE StripSpecial(_)
StripSpecial(s) ==
    IF s = << >> THEN << >>
    ELSE IF IsWordChar(Head(s)) \/ IsSpaceChar(Head(s))
         THEN <<Head(s)>> \o StripSpecial(Tail(s))
         ELSE StripSpecial(Tail(s))

\* ' '.join(s.split()): words separated by exactly one space, no leading or
\* trailing whitespace.  acc is the text built so far, gap whether whitespace
\* was met since the last word character.
RECURSIVE JoinSplit(_, _, _)
JoinSplit(s, acc, gap) ==
    IF s = << >> THEN acc
    ELSE IF IsSpaceChar(Head(s))
         THEN JoinSplit(Tail(s), acc, acc # << >>)
         ELSE JoinSplit(Tail(s),
                        acc \o (IF gap THEN <<" ">> ELSE << >>) \o <<Head(s)>>,
                        FALSE)

_normalize_title_no_lower(title) ==
    IF title = << >> THEN << >>
    ELSE JoinSplit(StripSpecial(title), << >>, FALSE)

\* Deduplicator._normalize_title
_normalize_title(title) ==
    IF title = << >> THEN << >>
    ELSE JoinSplit(StripSpecial(Lower(title)), << >>, FALSE)

(***************************************************************************)
(* The Deduplicator as a value d = [urls, hashes, titles] and its methods  *)
(* as operators on it; the actions below apply them to the state.          *)
(***************************************************************************)
EmptyIndex == [k \in {} |-> << >>]

\* Deduplicator.__init__
NewDeduplicator == [urls |-> {}, hashes |-> {}, titles |-> EmptyIndex]

\* self._title_index[key].append(url) on a defaultdict(list)
IndexAppend(idx, key, url) ==
    [k \in DOMAIN idx \cup {key} |->
        IF k = key
        THEN (IF key \in DOMAIN idx THEN Append(idx[key], url) ELSE <<url>>)
        ELSE idx[k]]

\* add_seen that registers the title only
add_seen_title_only(d, url, title) ==
    [urls   |-> d.urls,
     hashes |-> d.hashes,
     titles |-> IF title # << >>
                THEN IndexAppend(d.titles, _normalize_title(title), url)
                ELSE d.titles]

\* Deduplicator.add_seen
add_seen(d, url, title) ==
    [urls   |-> d.urls \cup {url},
     hashes |-> d.hashes,
     titles |-> IF title # << >>
                THEN IndexAppend(d.titles, _normalize_title(title), url)
                ELSE d.titles]

\* is_seen without the title branch
is_seen_url_only(d, url, title) == url \in d.urls

\* Deduplicator.is_seen
is_seen(d, url, title) ==
    \/ url \in d.urls
    \/ /\ title # << >>
       /\ _normalize_title(title) \in DOMAIN d.titles

(***************************************************************************)
(* Articles: [url, title, source, publish_time, summary]; the other fields *)
(* of NewsArticle are not read by the Deduplicator.                        *)
(***************************************************************************)
SummaryPrefixLen == 100     \* article.summary[:100]

Digit(n) == CASE n = 0 -> "0" [] n = 1 -> "1" [] n = 2 -> "2" [] n = 3 -> "3"
              [] n = 4 -> "4" [] n = 5 -> "5" [] n = 6 -> "6" [] n = 7 -> "7"
              [] n = 8 -> "8" [] OTHER -> "9"

\* str(publish_time) inside the f-string: "None", or the datetime's text
\* (a day n of January 2026, at 08:00:00)
StrOfTime(pt) ==
    IF pt = << >> THEN <<"N", "o", "n", "e">>
    ELSE <<"2", "0", "2", "6", "-", "0", "1", "-">>
         \o <<Digit(pt[1] \div 10), Digit(pt[1] % 10)>>
         \o <<" ", "0", "8", ":", "0", "0", ":", "0", "0">>

Prefix(s, n) == SubSeq(s, 1, IF Len(s) < n THEN Len(s) ELSE n)

\* `if article.summary:` -- neither None nor the empty string
HasSummary(a) == a.summary # << >> /\ a.summary[1] # << >>

\* the text that _compute_content_hash hashes
ContentString(a) ==
    a.title \o <<"|">> \o a.source \o <<"|">> \o StrOfTime(a.publish_time)
    \o (IF HasSummary(a)
        THEN <<"|">> \o Prefix(a.summary[1], SummaryPrefixLen)
        ELSE << >>)

\* hashlib.md5(...).hexdigest(), taken to be collision-free: two digests are
\* equal exactly when the hashed texts are
Md5(text) == <<"md5", text>>

\* Deduplicator._compute_content_hash
_compute_content_hash(a) == Md5(ContentString(a))

\* an iteration that keeps the article without recording its fingerprint
DedupStep_hash_unrecorded(acc, a) ==
    IF is_seen(acc.d, a.url, a.title) THEN acc
    ELSE IF _compute_content_hash(a) \in acc.d.hashes THEN acc
    ELSE [d   |-> add_seen(acc.d, a.url, a.title),
          out |-> Append(acc.out, a)]

\* one iteration of the loop of deduplicate: acc = [d, out]
DedupStep(acc, a) ==
    IF is_seen(acc.d, a.url, a.title) THEN acc
    ELSE IF _compute_content_hash(a) \in acc.d.hashes THEN acc
    ELSE [d   |-> [add_seen(acc.d, a.url, a.title) EXCEPT
                      !.hashes = @ \cup {_compute_content_hash(a)}],
          out |-> Append(acc.out, a)]

RECURSIVE DedupLoop(_, _)
DedupLoop(acc, articles) ==
    IF articles = << >> THEN acc
    ELSE DedupLoop(DedupStep(acc, Head(articles)), Tail(articles))

\* a loop that starts at the second element (range(1, len(articles)))
deduplicate_skip_first(d, articles) ==
    DedupLoop([d |-> d, out |-> << >>],
              IF articles = << >> THEN << >> ELSE Tail(articles))

\* Deduplicator.deduplicate: [d |-> the index afterwards, out |-> the list returned]
deduplicate(d, articles) == DedupLoop([d |-> d, out |-> << >>], articles)

\* a seeding that takes the first of the given URLs only
load_from_database_first(d, urls) ==
    [d EXCEPT !.urls = @ \cup {urls[i] : i \in 1..(IF urls = << >> THEN 0 ELSE 1)}]

\* a seeding that replaces the seen-URL set by the given URLs
load_from_database_replace(d, urls) ==
    [d EXCEPT !.urls = {urls[i] : i \in 1..Len(urls)}]

\* Deduplicator.load_from_database
load_from_database(d, urls) ==
    [d EXCEPT !.urls = @ \cup {urls[i] : i \in 1..Len(urls)}]

\* Deduplicator.clear
clear(d) == NewDeduplicator

(***************************************************************************)
(* Inputs.                                                                 *)
(***************************************************************************)
SeqsUpTo(S, n) == UNION {[1..k -> S] : k \in 0..n}

Threads == {"main", "worker"}

\* a thread that is not inside run_daily_crawl
NoRun ==
    [pc |-> "idle", i |-> 0, websites |-> << >>, acc |-> << >>,
     all_articles |-> << >>, seeded |-> FALSE, known |-> {}, visits |-> << >>,
     recorded |-> << >>, result |-> "none", batch |-> << >>]

\* the scheduler object after NewsScheduler.__init__, and where the main
\* thread of the process is.  started: scheduler.running; jobs: what
\* scheduler.get_jobs() lists; instances: the running instances of the job
\* that the scheduler submitted; due, fires: the trigger time has arrived,
\* and on how many days so far; runs_of_fire[k]: how many runs the k-th
\* arrival started; adds, eager: the calls of add_daily_task and the direct
\* calls of run_daily_crawl by start(); main: "init" before start(), "start"
\* inside it, "sleep" in the loop of cmd_daemon, "raised" and "exited" when
\* the process has ended; handler: the position inside _signal_handler;
\* stopped: scheduler.shutdown() has been called
NoSched == [started |-> FALSE, jobs |-> << >>, instances |-> 0, due |-> FALSE,
            fires |-> 0, runs_of_fire |-> << >>, adds |-> 0, eager |-> 0,
            main |-> "init", handler |-> "none", stopped |-> FALSE]

\* the orchestrator left out of a specification of the Deduplicator alone
OrchUnused ==
    /\ store = << >>
    /\ crawl_history = << >>
    /\ now = 0
    /\ config = [broken |-> FALSE, sites |-> << >>]
    /\ running = FALSE
    /\ sched = NoSched
    /\ run = [t \in Threads |-> NoRun]
    /\ nRuns = 0

URLs == {1, 2}

\* every title of at most MaxTitleLen characters
AllTitles == SeqsUpTo(Alphabet, MaxTitleLen)

\* the titles of crawled articles: none, two that normalize alike, one of
\* punctuation only
ArticleTitles == {<< >>, <<"a">>, <<"A", "!">>, <<"!">>}

NoSummary == << >>                      \* summary = None
Summaries == {NoSummary}

ArticlePool ==
    [url : URLs, title : ArticleTitles, source : {<<"c">>},
     publish_time : {<< >>}, summary : Summaries]

D == [urls |-> seen_urls, hashes |-> seen_hashes, titles |-> title_index]

SetDInit(d) ==
    /\ seen_urls = d.urls
    /\ seen_hashes = d.hashes
    /\ title_index = d.titles

SetD(d) ==
    /\ seen_urls' = d.urls
    /\ seen_hashes' = d.hashes
    /\ title_index' = d.titles

(***************************************************************************)
(* SpecDedup: one Deduplicator driven through its API, without clear().    *)
(***************************************************************************)
InitDedup ==
    /\ OrchUnused
    /\ SetDInit(NewDeduplicator)
    /\ returned = << >>
    /\ lastOp = [op |-> "init"]
    /\ nCalls = 0

AddSeenCall ==
    /\ UNCHANGED orchVars
    /\ nCalls < MaxCalls
    /\ \E u \in URLs, t \in ArticleTitles :
          /\ SetD(add_seen(D, u, t))
          /\ lastOp' = [op |-> "add_seen"]
    /\ nCalls' = nCalls + 1
    /\ UNCHANGED returned

LoadFromDatabaseCall ==
    /\ UNCHANGED orchVars
    /\ nCalls < MaxCalls
    /\ \E urls \in SeqsUpTo(URLs, MaxBatch) :
          /\ SetD(load_from_database(D, urls))
          /\ lastOp' = [op |-> "load_from_database", urls |-> urls]
    /\ nCalls' = nCalls + 1
    /\ UNCHANGED returned

DeduplicateCall ==
    /\ UNCHANGED orchVars
    /\ nCalls < MaxCalls
    /\ \E X \in SeqsUpTo(ArticlePool, MaxBatch) :
          LET r == deduplicate(D, X) IN
          /\ SetD(r.d)
          /\ returned' = returned \o r.out
          /\ lastOp' = [op |-> "deduplicate", nIn |-> Len(X), out |-> r.out,
                        urlsBefore |-> seen_urls]
    /\ nCalls' = nCalls + 1

NextDedup == AddSeenCall \/ LoadFromDatabaseCall \/ DeduplicateCall

SpecDedup == InitDedup /\ [][NextDedup]_vars

(***************************************************************************)
(* C1: over any sequence of load_from_database, add_seen and deduplicate   *)
(* calls without clear(), deduplicate never returns an article whose URL   *)
(* was in the seen-URL set when the article was examined (the set before   *)
(* the call plus the URLs of the articles kept earlier in the call), and   *)
(* no two articles ever returned share a URL, a non-empty normalized       *)
(* title, or a content fingerprint.                                        *)
(***************************************************************************)
ShareIdentity(a, b) ==
    \/ a.url = b.url
    \/ /\ _normalize_title(a.title) # << >>
       /\ _normalize_title(a.title) = _normalize_title(b.title)
    \/ _compute_content_hash(a) = _compute_content_hash(b)

C1_NeverReEmits ==
    /\ lastOp.op = "deduplicate" =>
          \A i \in 1..Len(lastOp.out) :
             lastOp.out[i].url \notin
                lastOp.urlsBefore \cup {lastOp.out[j].url : j \in 1..(i - 1)}
    /\ \A i, j \in 1..Len(returned) :
          i < j => ~ShareIdentity(returned[i], returned[j])

\* a deduplicate call that skipped part of its input and returned the rest,
\* after an earlier call had already returned articles
C1_Witness ==
    /\ lastOp.op = "deduplicate"
    /\ lastOp.urlsBefore # {}
    /\ Len(lastOp.out) >= 1
    /\ lastOp.nIn > Len(lastOp.out)
    /\ Len(returned) > Len(lastOp.out)

(***************************************************************************)
(* C25: load_from_database(urls) adds exactly the given URLs to the        *)
(* seen-URL set and leaves the title index and the content-fingerprint     *)
(* set unchanged; consequently an article whose URL is new but whose title *)
(* equals that of an article known only through seeding is not treated as  *)
(* seen.                                                                   *)
(***************************************************************************)
SeedingFrame ==
    lastOp'.op = "load_from_database" =>
       LET given == {lastOp'.urls[i] : i \in 1..Len(lastOp'.urls)}
       IN /\ seen_urls' = seen_urls \cup given
          /\ title_index' = title_index
          /\ seen_hashes' = seen_hashes
          /\ \A u \in URLs, t \in ArticleTitles :
                is_seen(D, u, t)' <=> (u \in given \/ is_seen(D, u, t))

C25_SeedingAddsUrlsOnly == [][SeedingFrame]_vars

\* a Deduplicator that knows URL 1 through seeding alone: an article under
\* URL 2 is not seen, whatever its title
C25_Witness ==
    /\ lastOp.op = "load_from_database"
    /\ lastOp.urls = <<1, 1>>
    /\ seen_urls = {1}
    /\ DOMAIN title_index = {}
    /\ seen_hashes = {}
    /\ \A t \in ArticleTitles : ~is_seen(D, 2, t)

(***************************************************************************)
(* SpecBatch: deduplicate as a function of (starting index, list).  Init   *)
(* draws both; DeduplicateOnce applies deduplicate to the list, and        *)
(* DeduplicateTwice applies it, from the same starting index, to the       *)
(* result.                                                                 *)
(***************************************************************************)
StartIndexes ==
    {NewDeduplicator}
    \cup {add_seen(NewDeduplicator, u, t) : u \in URLs, t \in ArticleTitles}
    \cup {load_from_database(NewDeduplicator, <<u>>) : u \in URLs}
    \cup {deduplicate(NewDeduplicator, <<a>>).d : a \in ArticlePool}

InitBatch ==
    /\ OrchUnused
    /\ \E d \in StartIndexes, X \in SeqsUpTo(ArticlePool, MaxBatch) :
          /\ SetDInit(d)
          /\ lastOp = [op |-> "input", start |-> d, X |-> X]
    /\ returned = << >>
    /\ nCalls = 0

DeduplicateOnce ==
    /\ UNCHANGED orchVars
    /\ lastOp.op = "input"
    /\ LET r == deduplicate(D, lastOp.X) IN
          /\ SetD(r.d)
          /\ lastOp' = [op |-> "once", start |-> lastOp.start, X |-> lastOp.X,
                        out |-> r.out]
    /\ UNCHANGED <<returned, nCalls>>

DeduplicateTwice ==
    /\ UNCHANGED orchVars
    /\ lastOp.op = "once"
    /\ LET r == deduplicate(lastOp.start, lastOp.out) IN
          /\ SetD(r.d)
          /\ lastOp' = [op |-> "twice", start |-> lastOp.start, X |-> lastOp.X,
                        out |-> lastOp.out, out2 |-> r.out]
    /\ UNCHANGED <<returned, nCalls>>

NextBatch == DeduplicateOnce \/ DeduplicateTwice

SpecBatch == InitBatch /\ [][NextBatch]_vars

(***************************************************************************)
(* C2: for all articles A and B with the same URL, whatever their other    *)
(* fields, deduplicate([A, B]) on a fresh Deduplicator returns exactly     *)
(* [A].                                                                    *)
(***************************************************************************)
C2_FirstOccurrenceWins ==
    (/\ lastOp.op \in {"once", "twice"}
     /\ lastOp.start = NewDeduplicator
     /\ Len(lastOp.X) = 2
     /\ lastOp.X[1].url = lastOp.X[2].url)
    => lastOp.out = <<lastOp.X[1]>>

C2_Witness ==
    /\ lastOp.op = "once"
    /\ lastOp.start = NewDeduplicator
    /\ Len(lastOp.X) = 2
    /\ lastOp.X[1].url = lastOp.X[2].url
    /\ _normalize_title(lastOp.X[1].title) # _normalize_title(lastOp.X[2].title)
    /\ lastOp.out = <<lastOp.X[1]>>

(***************************************************************************)
(* C4: deduplicate is idempotent: deduplicate(deduplicate(X)) equals       *)
(* deduplicate(X), both applications starting from the same index state.   *)
(***************************************************************************)
C4_Idempotent == lastOp.op = "twice" => lastOp.out2 = lastOp.out

\* a list that lost an article to deduplication and kept at least one,
\* on an index that was not empty at the start
C4_Witness ==
    /\ lastOp.op = "twice"
    /\ Len(lastOp.out) < Len(lastOp.X)
    /\ Len(lastOp.out) >= 1
    /\ lastOp.start # NewDeduplicator
    /\ lastOp.out2 = lastOp.out

(***************************************************************************)
(* C23: deduplicate returns a subsequence of its input (same relative      *)
(* order, no article added or altered), and an article is kept exactly     *)
(* when, at its turn, its URL is not in the seen-URL set, its normalized   *)
(* title (if the title is non-empty) is not in the title index, and its    *)
(* content fingerprint is not in the fingerprint set; every kept article,  *)
(* and no skipped article, is then added to all three structures (to the   *)
(* title index under its normalized title, if the title is non-empty).     *)
(***************************************************************************)
\* the three structures at the turn of X[i], when the articles at the
\* positions K were the ones kept
UrlsAt(start, X, K, i) == start.urls \cup {X[j].url : j \in {k \in K : k < i}}

TitleKeysAt(start, X, K, i) ==
    DOMAIN start.titles
    \cup {_normalize_title(X[j].title) :
             j \in {k \in K : k < i /\ X[k].title # << >>}}

HashesAt(start, X, K, i) ==
    start.hashes \cup {_compute_content_hash(X[j]) : j \in {k \in K : k < i}}

NewAtItsTurn(start, X, K, i) ==
    /\ X[i].url \notin UrlsAt(start, X, K, i)
    /\ X[i].title # << >> =>
          _normalize_title(X[i].title) \notin TitleKeysAt(start, X, K, i)
    /\ _compute_content_hash(X[i]) \notin HashesAt(start, X, K, i)

\* out is X restricted to the positions K, in the order of X
IsRestriction(out, X, K) ==
    /\ Len(out) = Cardinality(K)
    /\ \A i \in K : out[Cardinality({j \in K : j <= i})] = X[i]

InitTitle ==
    /\ OrchUnused
    /\ SetDInit(NewDeduplicator)
    /\ returned = << >>
    /\ lastOp = [op |-> "init"]
    /\ nCalls = 0

AddSeenTitle ==
    /\ UNCHANGED orchVars
    /\ lastOp.op = "init"
    /\ \E u1 \in URLs, t1 \in AllTitles :
          /\ SetD(add_seen(D, u1, t1))
          /\ lastOp' = [op |-> "added", u1 |-> u1, t1 |-> t1]
    /\ UNCHANGED <<returned, nCalls>>

IsSeenTitle ==
    /\ UNCHANGED orchVars
    /\ lastOp.op = "added"
    /\ \E u2 \in URLs, t2 \in AllTitles :
          lastOp' = [op |-> "queried", u1 |-> lastOp.u1, t1 |-> lastOp.t1,
                     u2 |-> u2, t2 |-> t2, result |-> is_seen(D, u2, t2)]
    /\ UNCHANGED <<seen_urls, seen_hashes, title_index, returned, nCalls>>

NextTitle == AddSeenTitle \/ IsSeenTitle

SpecTitle == InitTitle /\ [][NextTitle]_vars

(***************************************************************************)
(* The normalization as the claim words it: lowercase, remove every        *)
(* character that is neither a word character nor whitespace, collapse     *)
(* each run of whitespace to one space.  Two titles differ only in         *)
(* punctuation, letter case or whitespace when this makes them equal.      *)
(***************************************************************************)
RECURSIVE CollapseRuns(_, _)
CollapseRuns(s, inRun) ==
    IF s = << >> THEN << >>
    ELSE IF Head(s) \in SpaceChars
         THEN (IF inRun THEN << >> ELSE <<" ">>) \o CollapseRuns(Tail(s), TRUE)
         ELSE <<Head(s)>> \o CollapseRuns(Tail(s), FALSE)

StatedNormalForm(t) ==
    CollapseRuns(
        SelectSeq([i \in 1..Len(t) |-> IF t[i] \in UpperChars THEN "a" ELSE t[i]],
                  LAMBDA c : c \notin PunctChars),
        FALSE)

DifferOnlyInPunctCaseSpace(t1, t2) == StatedNormalForm(t1) = StatedNormalForm(t2)

(***************************************************************************)
(* C3 as stated: for all URLs u1, u2 and all titles t1, t2 that differ     *)
(* only in punctuation, letter case or whitespace, is_seen(u2, t2) after   *)
(* add_seen(u1, t1) is true.                                               *)
(***************************************************************************)
C3_AsStated ==
    (/\ lastOp.op = "queried"
     /\ lastOp.t1 # lastOp.t2
     /\ DifferOnlyInPunctCaseSpace(lastOp.t1, lastOp.t2))
    => lastOp.result

(***************************************************************************)
(* C3 amended: the same for titles t1, t2 that are both non-empty (an      *)
(* empty title is neither registered by add_seen nor looked up by          *)
(* is_seen).                                                               *)
(***************************************************************************)
C3_NonEmptyTitles ==
    (/\ lastOp.op = "queried"
     /\ lastOp.t1 # << >>
     /\ lastOp.t2 # << >>
     /\ DifferOnlyInPunctCaseSpace(lastOp.t1, lastOp.t2))
    => lastOp.result

\* different URLs, different non-empty titles that differ in case and in
\* punctuation, found seen
C3_Witness ==
    /\ lastOp.op = "queried"
    /\ lastOp.u1 # lastOp.u2
    /\ lastOp.t1 = <<"A", "!", "a">>
    /\ lastOp.t2 = <<"a", "A">>
    /\ DifferOnlyInPunctCaseSpace(lastOp.t1, lastOp.t2)
    /\ lastOp.result

(***************************************************************************)
(* SpecHash: _compute_content_hash on two articles.  Titles and source     *)
(* names are free text and may hold the separator character; a summary is  *)
(* None, empty, short, or longer than the hashed prefix.                   *)
(***************************************************************************)
LongSummary(last) ==
    [i \in 1..(SummaryPrefixLen + 1) |-> IF i > SummaryPrefixLen THEN last ELSE "y"]

HashPool ==
    [url : {1},
     title : {<<"a">>, <<"a", "|", "b">>},
     source : {<<"c">>, <<"b", "|", "c">>},
     publish_time : {<< >>, <<1>>},
     summary : {NoSummary, <<<< >>>>, <<<<"x">>>>,
                <<LongSummary("x")>>, <<LongSummary("c")>>}]

InitHash ==
    /\ OrchUnused
    /\ SetDInit(NewDeduplicator)
    /\ returned = << >>
    /\ \E a1 \in HashPool, a2 \in HashPool :
          lastOp = [op |-> "input", a1 |-> a1, a2 |-> a2]
    /\ nCalls = 0

ComputeContentHashes ==
    /\ UNCHANGED orchVars
    /\ lastOp.op = "input"
    /\ lastOp' = [op |-> "hashed", a1 |-> lastOp.a1, a2 |-> lastOp.a2,
                  h1 |-> _compute_content_hash(lastOp.a1),
                  h2 |-> _compute_content_hash(lastOp.a2)]
    /\ UNCHANGED <<seen_urls, seen_hashes, title_index, returned, nCalls>>

NextHash == ComputeContentHashes

SpecHash == InitHash /\ [][NextHash]_vars

\* the first 100 characters of the summary; no summary has none
SummaryPrefix(a) ==
    IF a.summary = << >> THEN << >> ELSE Prefix(a.summary[1], SummaryPrefixLen)

SameHashedFields(a, b) ==
    /\ a.title = b.title
    /\ a.source = b.source
    /\ a.publish_time = b.publish_time
    /\ SummaryPrefix(a) = SummaryPrefix(b)

(***************************************************************************)
(* C5: two articles have the same content fingerprint only if they have    *)
(* equal title, source, publish_time and first 100 characters of summary   *)
(* (so changing any one of these fields changes the fingerprint).          *)
(***************************************************************************)
C5_CollisionNeedsEqualFields ==
    (lastOp.op = "hashed" /\ lastOp.h1 = lastOp.h2)
    => SameHashedFields(lastOp.a1, lastOp.a2)

\* the part of C5 about a single field: two articles that differ in exactly
\* one of the four hashed fields have different fingerprints
C5_SingleFieldChange ==
    (/\ lastOp.op = "hashed"
     /\ Cardinality({f \in {"title", "source", "publish_time"} :
                        lastOp.a1[f] # lastOp.a2[f]}
                    \cup (IF SummaryPrefix(lastOp.a1) # SummaryPrefix(lastOp.a2)
                          THEN {"summary"} ELSE {})) = 1)
    => lastOp.h1 # lastOp.h2

(***************************************************************************)
(* The article store (database.py).  A row of news_articles is             *)
(* [url, crawled_day]; crawled_time is datetime.now() at the moment the    *)
(* spider creates the article, so rows are inserted in crawled_time order  *)
(* and ORDER BY crawled_time DESC is the reverse of the insertion order.   *)
(***************************************************************************)
RecentLimit == 50           \* get_recent_articles(..., limit: int = 50)
SeedWindowDays == 30        \* db.get_recent_articles(days=30)

Reverse(s) == [k \in 1..Len(s) |-> s[Len(s) + 1 - k]]

LastN(s, n) == IF Len(s) <= n THEN s ELSE SubSeq(s, Len(s) - n + 1, Len(s))

InWindow(rows, today, days) ==
    SelectSeq(rows, LAMBDA r : r.crawled_day >= today - days)

\* Database.get_recent_articles(days=days, limit=limit), no category
get_recent_articles(rows, today, days, limit) ==
    Reverse(LastN(InWindow(rows, today, days), limit))

StoredUrls(rows) == {rows[k].url : k \in 1..Len(rows)}

\* save_articles with a plain INSERT on a table without the UNIQUE constraint
save_articles_plain_insert(rows, articles, today) ==
    [rows |-> rows \o [k \in 1..Len(articles) |->
                          [url |-> articles[k].url, crawled_day |-> today]],
     saved |-> Len(articles)]

\* the INSERT of this article raises (a value sqlite cannot bind), which the
\* try around the INSERT catches
InsertRaises(a) == "unbindable" \in DOMAIN a /\ a.unbindable

\* Database.save_articles: INSERT OR IGNORE per article, url UNIQUE
RECURSIVE save_articles(_, _, _)
save_articles(rows, articles, today) ==
    IF articles = << >> THEN [rows |-> rows, saved |-> 0]
    ELSE LET a == Head(articles)
             fresh == a.url \notin StoredUrls(rows) /\ ~InsertRaises(a)
             rest == save_articles(
                        IF fresh
                        THEN Append(rows, [url |-> a.url, crawled_day |-> today])
                        ELSE rows,
                        Tail(articles), today)
         IN [rows |-> rest.rows,
             saved |-> rest.saved + (IF fresh THEN 1 ELSE 0)]

(***************************************************************************)
(* The orchestrator (scheduler.py).  An entry of the source list is        *)
(* [fail, articles]: fail = "config" when building the WebsiteConfig or    *)
(* the spider raises (a missing key, scheduler.py:130-151), "crawl" when   *)
(* the spider's _crawl_impl raises, "none" when _crawl_impl returns        *)
(* articles.  The source's name is its position in the list.               *)
(***************************************************************************)
MaxSites == 3               \* longest configured source list

RunArticle(u, t) ==
    [url |-> u, title |-> t, source |-> <<"c">>, publish_time |-> << >>,
     summary |-> NoSummary]

SitePool ==
    {[fail |-> "none",
      articles |-> <<RunArticle(1, <<"a">>), RunArticle(2, <<"A", "!">>)>>],
     [fail |-> "none", articles |-> <<RunArticle(3, <<"x">>)>>],
     [fail |-> "config", articles |-> << >>],
     [fail |-> "crawl", articles |-> << >>]}

\* BaseSpider.crawl: an exception of _crawl_impl is caught, [] is returned
spider_crawl(site) == IF site.fail = "crawl" THEN << >> ELSE site.articles

\* the loop of _crawl_all_websites goes on to the next source whether the
\* body raised or not (`except Exception: ... continue`)
NextSite(i, n, raised) == i + 1

\* the body of the loop of _crawl_all_websites for one source.
\* recordFails: db.save_crawl_result raises.
CrawlOne(d, acc, site, name, recordFails) ==
    IF site.fail = "config"
    THEN [d |-> d, acc |-> acc, recorded |-> << >>, kept |-> << >>,
          raised |-> TRUE, appended |-> FALSE]
    ELSE LET r == deduplicate(d, spider_crawl(site)) IN
         [d |-> r.d,
          acc |-> acc \o r.out,
          recorded |-> IF recordFails THEN << >>
                       ELSE <<[source_name |-> name,
                               success |-> Len(r.out) > 0,
                               articles_count |-> Len(r.out)]>>,
          kept |-> r.out,
          raised |-> recordFails,
          appended |-> TRUE]

Frame(t) == run[t]

SetFrame(t, f) == run' = [run EXCEPT ![t] = f]

\* run_daily_crawl, lines 74-81: self._running = True
BeginRun(t) ==
    /\ running' = TRUE
    /\ SetFrame(t, [NoRun EXCEPT !.pc = "get_sites"])
    /\ nRuns' = nRuns + 1

\* line 85: websites = config.get_all_website_list()
GetWebsites(t) ==
    /\ Frame(t).pc = "get_sites"
    /\ IF config.broken
       THEN SetFrame(t, [Frame(t) EXCEPT !.pc = "except"])
       ELSE SetFrame(t, [Frame(t) EXCEPT !.pc = "load_seen",
                                         !.websites = config.sites])
    /\ UNCHANGED <<dedupVars, callVars, store, crawl_history, now, config,
                   running, sched, nRuns>>

\* a _load_seen_urls without the try: a failure of the read ends the run
\* in the except clause of run_daily_crawl
LoadSeenUrls_aborting(t) ==
    /\ Frame(t).pc = "load_seen"
    /\ \E dbFails \in BOOLEAN :
          /\ IF dbFails
             THEN UNCHANGED dedupVars
             ELSE LET rows == get_recent_articles(store, now, SeedWindowDays,
                                                  RecentLimit)
                  IN SetD(load_from_database(
                             D, [k \in 1..Len(rows) |-> rows[k].url]))
          /\ SetFrame(t, [Frame(t) EXCEPT
                 !.pc = IF dbFails THEN "except" ELSE "crawl", !.i = 1,
                 !.seeded = ~dbFails,
                 !.known = StoredUrls(InWindow(store, now, SeedWindowDays))])
    /\ UNCHANGED <<callVars, store, crawl_history, now, config, running,
                   sched, nRuns>>

\* line 89: self._load_seen_urls(); a failure of the read is caught inside
LoadSeenUrls(t) ==
    /\ Frame(t).pc = "load_seen"
    /\ \E dbFails \in BOOLEAN :
          /\ IF dbFails
             THEN UNCHANGED dedupVars
             ELSE LET rows == get_recent_articles(store, now, SeedWindowDays,
                                                  RecentLimit)
                  IN SetD(load_from_database(
                             D, [k \in 1..Len(rows) |-> rows[k].url]))
          /\ SetFrame(t, [Frame(t) EXCEPT
                 !.pc = "crawl", !.i = 1,
                 !.seeded = ~dbFails,
                 !.known = StoredUrls(InWindow(store, now, SeedWindowDays))])
    /\ UNCHANGED <<callVars, store, crawl_history, now, config, running,
                   sched, nRuns>>

\* lines 127-177: one source of the loop of _crawl_all_websites
CrawlSite(t) ==
    /\ Frame(t).pc = "crawl"
    /\ Frame(t).i <= Len(Frame(t).websites)
    /\ \E recordFails \in BOOLEAN :
          LET f == Frame(t)
              c == CrawlOne(D, f.acc, f.websites[f.i], f.i, recordFails)
          IN /\ SetD(c.d)
             /\ crawl_history' = crawl_history \o c.recorded
             /\ SetFrame(t, [f EXCEPT
                    !.acc = c.acc,
                    !.i = NextSite(f.i, Len(f.websites), c.raised),
                    !.recorded = @ \o c.recorded,
                    !.visits = Append(@, [site |-> f.i, raised |-> c.raised,
                                          appended |-> c.appended,
                                          kept |-> c.kept])])
    /\ UNCHANGED <<callVars, store, now, config, running, sched, nRuns>>

\* the save and the notification done for an empty batch too
HasArticlesAlways(all_articles) == TRUE

\* line 96: `if all_articles:`
HasArticles(all_articles) == all_articles # << >>

\* lines 92-96: all_articles = self._crawl_all_websites(websites)
CrawlDone(t) ==
    /\ Frame(t).pc = "crawl"
    /\ Frame(t).i > Len(Frame(t).websites)
    /\ SetFrame(t, [Frame(t) EXCEPT
           !.all_articles = <<Frame(t).acc>>,
           !.pc = IF HasArticles(Frame(t).acc) THEN "save" ELSE "save_file"])
    /\ UNCHANGED <<dedupVars, callVars, store, crawl_history, now, config,
                   running, sched, nRuns>>

\* line 98: db.save_articles(all_articles); the connection or the commit
\* may fail
SaveArticles(t) ==
    /\ Frame(t).pc = "save"
    /\ \E dbFails \in BOOLEAN :
          IF dbFails
          THEN /\ SetFrame(t, [Frame(t) EXCEPT !.pc = "except"])
               /\ UNCHANGED store
          ELSE /\ store' = save_articles(store, Frame(t).all_articles[1],
                                         now).rows
               /\ SetFrame(t, [Frame(t) EXCEPT !.pc = "notify"])
    /\ UNCHANGED <<dedupVars, callVars, crawl_history, now, config, running,
                   sched, nRuns>>

\* lines 102-107: the AI analysis catches its own failures; then
\* self._send_notifications(all_articles), which raises when the notifier
\* configuration cannot be read
SendNotifications(t) ==
    /\ Frame(t).pc = "notify"
    /\ \E fails \in BOOLEAN :
          SetFrame(t, [Frame(t) EXCEPT
             !.pc = IF fails THEN "except" ELSE "save_file"])
    /\ UNCHANGED <<dedupVars, callVars, store, crawl_history, now, config,
                   running, sched, nRuns>>

\* lines 110-113: _save_to_file catches its own failures; then
\* _log_crawl_history reads db.get_statistics(), which may fail
SaveToFileAndLog(t) ==
    /\ Frame(t).pc = "save_file"
    /\ \E dbFails \in BOOLEAN :
          SetFrame(t, [Frame(t) EXCEPT
             !.pc = IF dbFails THEN "except" ELSE "finally"])
    /\ UNCHANGED <<dedupVars, callVars, store, crawl_history, now, config,
                   running, sched, nRuns>>

\* lines 115-116: except Exception: logger.error(...)
ExceptHandler(t) ==
    /\ Frame(t).pc = "except"
    /\ SetFrame(t, [Frame(t) EXCEPT !.pc = "finally"])
    /\ UNCHANGED <<dedupVars, callVars, store, crawl_history, now, config,
                   running, sched, nRuns>>

\* lines 118-119: finally: self._running = False
Finally(t) ==
    /\ Frame(t).pc = "finally"
    /\ running' = FALSE
    /\ SetFrame(t, [Frame(t) EXCEPT !.pc = "return"])
    /\ UNCHANGED <<dedupVars, callVars, store, crawl_history, now, config,
                   sched, nRuns>>

\* line 121: return all_articles -- UnboundLocalError when the name was
\* never assigned
ReturnBatch(t) ==
    /\ Frame(t).pc = "return"
    /\ IF Frame(t).all_articles = << >>
       THEN SetFrame(t, [Frame(t) EXCEPT !.pc = "done", !.result = "raised"])
       ELSE SetFrame(t, [Frame(t) EXCEPT !.pc = "done", !.result = "returned",
                                         !.batch = Frame(t).all_articles[1]])
    /\ UNCHANGED <<dedupVars, callVars, store, crawl_history, now, config,
                   running, sched, nRuns>>

InProgress(t) == Frame(t).pc \notin {"idle", "done"}

(***************************************************************************)
(* SpecRun: one process that constructs a NewsScheduler (empty index) and  *)
(* calls run_once() (main.py cmd_run_once), on a store left by the runs of *)
(* earlier processes.                                                      *)
(***************************************************************************)
StartDay == SeedWindowDays + 1

Configs ==
    {[broken |-> TRUE, sites |-> << >>]}
    \cup {[broken |-> FALSE, sites |-> ss] : ss \in SeqsUpTo(SitePool, MaxSites)}

\* what earlier runs left in the store: nothing; article 1, crawled today;
\* article 1 and then RecentLimit further articles, all crawled today;
\* article 1, crawled before the look-back window
StoreHistories ==
    LET first(day) == <<[url |-> 1, crawled_day |-> day]>>
        later == [k \in 1..RecentLimit |->
                     [url |-> 100 + k, crawled_day |-> StartDay]]
    IN {<< >>, first(StartDay), first(StartDay) \o later,
        first(StartDay - SeedWindowDays - 1)}

InitRun ==
    /\ SetDInit(NewDeduplicator)
    /\ returned = << >>
    /\ lastOp = [op |-> "init"]
    /\ nCalls = 0
    /\ store \in StoreHistories
    /\ crawl_history = << >>
    /\ now = StartDay
    /\ config \in Configs
    /\ running = FALSE
    /\ sched = NoSched
    /\ run = [t \in Threads |-> NoRun]
    /\ nRuns = 0

\* NewsScheduler.run_once, as main.py cmd_run_once calls it: once, on a
\* NewsScheduler constructed by the process
RunOnceCall ==
    /\ Frame("main").pc = "idle"
    /\ BeginRun("main")
    /\ UNCHANGED <<dedupVars, callVars, store, crawl_history, now, config, sched>>

\* one step of run_daily_crawl on thread t; the main thread does not take
\* it while it is inside the signal handler
RunStep(t) ==
    /\ (t = "main" => sched.handler = "none")
    /\ \/ GetWebsites(t)
       \/ LoadSeenUrls(t)
       \/ CrawlSite(t)
       \/ CrawlDone(t)
       \/ SaveArticles(t)
       \/ SendNotifications(t)
       \/ SaveToFileAndLog(t)
       \/ ExceptHandler(t)
       \/ Finally(t)
       \/ ReturnBatch(t)

NextRun == RunOnceCall \/ RunStep("main")

SpecRun == InitRun /\ [][NextRun]_vars

(***************************************************************************)
(* What the claims about a run read from its frame.                        *)
(***************************************************************************)
\* the loop over the sources has ended and all_articles is assigned
PastCrawl(t) == Frame(t).all_articles # << >>

RECURSIVE KeptOfNotRaised(_)
KeptOfNotRaised(visits) ==
    IF visits = << >> THEN << >>
    ELSE (IF Head(visits).raised THEN << >> ELSE Head(visits).kept)
         \o KeptOfNotRaised(Tail(visits))

RECURSIVE KeptOfAppended(_)
KeptOfAppended(visits) ==
    IF visits = << >> THEN << >>
    ELSE (IF Head(visits).appended THEN Head(visits).kept ELSE << >>)
         \o KeptOfAppended(Tail(visits))

InSeq(a, seq) == \E k \in 1..Len(seq) : seq[k] = a

(***************************************************************************)
(* C6 as stated: whichever sources raise, the loop visits every source,    *)
(* and the batch is, in source order, the deduplicated articles of the     *)
(* sources whose processing did not raise; a source whose processing       *)
(* raised contributes no article.                                          *)
(***************************************************************************)
C6_AsStated ==
    \A t \in Threads :
       PastCrawl(t) =>
          /\ Len(Frame(t).visits) = Len(Frame(t).websites)
          /\ Frame(t).all_articles[1] = KeptOfNotRaised(Frame(t).visits)

(***************************************************************************)
(* The part of C6 that holds: whichever sources raise, the loop visits     *)
(* every source in order, and the batch is the deduplicated articles of    *)
(* every source whose processing reached the append to the batch: the      *)
(* sources that did not fail and those that failed only afterwards, while  *)
(* the CrawlOutcome was being recorded.  A source that fails before the    *)
(* append (its configuration or its spider) contributes no article.  No    *)
(* two articles of the batch share a URL, a title or a fingerprint, and    *)
(* every article a working spider returned is in the batch, shares its     *)
(* identity with an article of the batch, or has its URL in the store.     *)
(***************************************************************************)
C6_FailureIsolation ==
    \A t \in Threads :
       PastCrawl(t) =>
          LET f == Frame(t)
              batch == f.all_articles[1]
          IN /\ Len(f.visits) = Len(f.websites)
             /\ \A i \in 1..Len(f.visits) : f.visits[i].site = i
             /\ batch = KeptOfAppended(f.visits)
             /\ \A i \in 1..Len(f.visits) :
                   f.websites[i].fail # "none" =>
                      /\ f.visits[i].kept = << >>
                      /\ f.websites[i].fail = "config" => ~f.visits[i].appended
             /\ \A i, j \in 1..Len(batch) :
                   i < j => ~ShareIdentity(batch[i], batch[j])
             /\ \A i \in 1..Len(f.visits) :
                   f.websites[i].fail = "none" =>
                      \A k \in 1..Len(f.websites[i].articles) :
                         LET a == f.websites[i].articles[k] IN
                         \/ InSeq(a, f.visits[i].kept)
                         \/ \E b \in 1..Len(batch) : ShareIdentity(batch[b], a)
                         \/ a.url \in f.known

\* a run over three sources that returned: one source raised after its
\* articles were appended, a later one raised before, a still later one
\* contributed articles
C6_Witness ==
    /\ Frame("main").result = "returned"
    /\ Len(Frame("main").visits) = 3
    /\ Frame("main").visits[1].raised
    /\ Frame("main").visits[1].kept # << >>
    /\ Frame("main").visits[2].raised
    /\ ~Frame("main").visits[2].appended
    /\ Frame("main").visits[3].kept # << >>
    /\ Len(Frame("main").batch) >= 2

(***************************************************************************)
(* C7: in every run exactly one CrawlOutcome is recorded for each          *)
(* configured source; a source whose processing raised gets an outcome     *)
(* with success = false and article count 0.  (Stated for the runs in      *)
(* which the store accepts every outcome written to it.)                   *)
(***************************************************************************)
OutcomesOf(f, i) ==
    {k \in 1..Len(f.recorded) : f.recorded[k].source_name = i}

C7_OneOutcomePerSource ==
    \A t \in Threads :
       (/\ PastCrawl(t)
        /\ \A i \in 1..Len(Frame(t).visits) :
              Frame(t).visits[i].raised => ~Frame(t).visits[i].appended)
       => \A i \in 1..Len(Frame(t).websites) :
             /\ Cardinality(OutcomesOf(Frame(t), i)) = 1
             /\ Frame(t).websites[i].fail # "none" =>
                   \A k \in OutcomesOf(Frame(t), i) :
                      /\ ~Frame(t).recorded[k].success
                      /\ Frame(t).recorded[k].articles_count = 0

(***************************************************************************)
(* C8: run_daily_crawl never raises to its caller, whichever step fails    *)
(* (reading the source list, seeding, crawling, saving, notification,      *)
(* report writing); it returns a batch, which is empty when every source   *)
(* fails.                                                                  *)
(***************************************************************************)
C8_NeverRaises ==
    \A t \in Threads :
       /\ Frame(t).result # "raised"
       /\ (/\ Frame(t).result = "returned"
           /\ \A i \in 1..Len(Frame(t).websites) :
                 Frame(t).websites[i].fail # "none")
          => Frame(t).batch = << >>

(***************************************************************************)
(* C9: after a seeding that succeeded, no article whose URL was persisted  *)
(* in the store within the look-back window appears in the batch the run   *)
(* returns, for any number of stored articles.                             *)
(***************************************************************************)
C9_StoredNotReEmitted ==
    \A t \in Threads :
       (Frame(t).result = "returned" /\ Frame(t).seeded)
       => \A k \in 1..Len(Frame(t).batch) :
             Frame(t).batch[k].url \notin Frame(t).known

\* the part of C9 that holds: when the window holds at most RecentLimit rows
C9_WithinLimit ==
    \A t \in Threads :
       (/\ Frame(t).result = "returned"
        /\ Frame(t).seeded
        /\ Cardinality(Frame(t).known) <= RecentLimit)
       => \A k \in 1..Len(Frame(t).batch) :
             Frame(t).batch[k].url \notin Frame(t).known

(***************************************************************************)
(* C26: the CrawlOutcome recorded for a source has success = true if and   *)
(* only if the Spider produced at least one article for that source,       *)
(* regardless of whether any of those articles survived deduplication (a   *)
(* source whose articles were all duplicates is still recorded as          *)
(* successful).                                                            *)
(***************************************************************************)
C26_SuccessIffProduced ==
    \A t \in Threads :
       \A k \in 1..Len(Frame(t).recorded) :
          LET r == Frame(t).recorded[k] IN
          r.success <=> Len(spider_crawl(Frame(t).websites[r.source_name])) > 0

\* what holds instead: success tells whether an article of the source
\* survived deduplication
C26_SuccessIffKept ==
    \A t \in Threads :
       \A k \in 1..Len(Frame(t).recorded) :
          LET r == Frame(t).recorded[k] IN
          \E v \in 1..Len(Frame(t).visits) :
             /\ Frame(t).visits[v].site = r.source_name
             /\ r.success <=> Len(Frame(t).visits[v].kept) > 0
             /\ r.articles_count = Len(Frame(t).visits[v].kept)

(***************************************************************************)
(* SpecSched: the daemon (main.py cmd_daemon).  start() registers the      *)
(* daily job with the BackgroundScheduler, starts it, and then calls       *)
(* run_daily_crawl() itself on the calling thread.  The scheduler runs the *)
(* job on a worker thread when the cron trigger is due; it counts the      *)
(* instances of the job that it submitted itself and skips a fire while    *)
(* that count has reached max_instances (left at the library default, 1).  *)
(* The direct call in start() is not an instance the scheduler counts.     *)
(***************************************************************************)
MaxFires == 2

MaxInstances == 1

SchedConfigs ==
    {[broken |-> TRUE, sites |-> << >>]}
    \cup {[broken |-> FALSE, sites |-> <<site>>] : site \in SitePool}

InitSched ==
    /\ SetDInit(NewDeduplicator)
    /\ returned = << >>
    /\ lastOp = [op |-> "init"]
    /\ nCalls = 0
    /\ store = << >>
    /\ crawl_history = << >>
    /\ now = StartDay
    /\ config \in SchedConfigs
    /\ running = FALSE
    /\ sched = NoSched
    /\ run = [t \in Threads |-> NoRun]
    /\ nRuns = 0

\* CronTrigger(hour=hour, minute=minute)
CronTrigger(hour, minute) == [hour |-> hour, minute |-> minute]

\* scheduler.add_job that always adds
add_job_append(jobs, job, replace_existing) ==
    [raised |-> FALSE, jobs |-> Append(jobs, job)]

\* scheduler.add_job(func, trigger, id, replace_existing): a job whose id is
\* already registered is replaced in place, or the call raises
\* ConflictingIdError when replace_existing is not set
add_job(jobs, job, replace_existing) ==
    IF \E k \in 1..Len(jobs) : jobs[k].id = job.id
    THEN IF replace_existing
         THEN [raised |-> FALSE,
               jobs |-> [k \in 1..Len(jobs) |->
                            IF jobs[k].id = job.id THEN job ELSE jobs[k]]]
         ELSE [raised |-> TRUE, jobs |-> jobs]
    ELSE [raised |-> FALSE, jobs |-> Append(jobs, job)]

\* NewsScheduler.add_daily_task(hour, minute)
add_daily_task(s, hour, minute) ==
    [s EXCEPT !.jobs = add_job(s.jobs,
                               [id |-> "daily_crawl",
                                trigger |-> CronTrigger(hour, minute)],
                               TRUE).jobs,
              !.adds = s.adds + 1]

\* the times of day the daily task is asked for
TriggerTimes == {CronTrigger(8, 0), CronTrigger(0, 0)}

MaxAdds == 1                \* calls of add_daily_task before start()

\* start(hour=8, minute=0): the time of day cmd_daemon passes when neither
\* the command line nor the configuration names another
StartTime == CronTrigger(8, 0)

\* add_daily_task called on the NewsScheduler before start()
AddDailyTaskCall ==
    /\ sched.main = "init"
    /\ sched.adds < MaxAdds
    /\ \E at \in TriggerTimes : sched' = add_daily_task(sched, at.hour, at.minute)
    /\ UNCHANGED <<dedupVars, callVars, store, crawl_history, now, config,
                   running, run, nRuns>>

\* NewsScheduler.start: add_daily_task (add_job with id 'daily_crawl',
\* replace_existing), scheduler.start(), then the direct call of
\* run_daily_crawl on the calling thread
StartCall ==
    /\ sched.main = "init"
    /\ Frame("main").pc = "idle"
    /\ sched' = [add_daily_task(sched, StartTime.hour, StartTime.minute)
                    EXCEPT !.started = TRUE, !.main = "start",
                           !.eager = sched.eager + 1]
    /\ BeginRun("main")
    /\ UNCHANGED <<dedupVars, callVars, store, crawl_history, now, config>>

\* the direct call of run_daily_crawl has ended: start() returns to
\* cmd_daemon, which sleeps in its loop, or the exception of the call leaves
\* start() and cmd_daemon
StartReturn ==
    /\ sched.main = "start"
    /\ sched.handler = "none"
    /\ Frame("main").pc = "done"
    /\ sched' = [sched EXCEPT !.main = IF Frame("main").result = "returned"
                                       THEN "sleep" ELSE "raised"]
    /\ UNCHANGED <<dedupVars, callVars, store, crawl_history, now, config,
                   running, run, nRuns>>

\* the time of the CronTrigger(hour, minute) arrives, once a day (the few
\* days that pass in a behaviour stay inside the look-back window, so the
\* day is left as it is); the process is alive as long as start() has not
\* raised out of cmd_daemon
CronDue ==
    /\ sched.started
    /\ ~sched.due
    /\ sched.fires < MaxFires
    /\ Frame("main").result # "raised"
    /\ sched' = [sched EXCEPT !.due = TRUE, !.fires = sched.fires + 1,
                              !.runs_of_fire = Append(sched.runs_of_fire, 0)]
    /\ UNCHANGED <<dedupVars, callVars, store, crawl_history, now, config,
                   running, run, nRuns>>

\* the scheduler processes the due job: it submits run_daily_crawl to the
\* worker thread unless max_instances instances it submitted are running,
\* in which case this fire is skipped
CronFire ==
    /\ sched.started
    /\ sched.due
    /\ \E k \in 1..Len(sched.jobs) : sched.jobs[k].id = "daily_crawl"
    /\ IF sched.instances < MaxInstances
       THEN /\ sched' = [sched EXCEPT !.due = FALSE,
                                     !.instances = sched.instances + 1,
                                     !.runs_of_fire[sched.fires] =
                                         sched.runs_of_fire[sched.fires] + 1]
            /\ BeginRun("worker")
       ELSE /\ sched' = [sched EXCEPT !.due = FALSE]
            /\ UNCHANGED <<running, run, nRuns>>
    /\ UNCHANGED <<dedupVars, callVars, store, crawl_history, now, config>>

\* the job the scheduler submitted has ended: the instance is released and
\* _job_listener is told (it only logs)
JobFinished ==
    /\ sched.instances > 0
    /\ Frame("worker").pc = "done"
    /\ sched' = [sched EXCEPT !.instances = sched.instances - 1]
    /\ SetFrame("worker", NoRun)
    /\ UNCHANGED <<dedupVars, callVars, store, crawl_history, now, config,
                   running, nRuns>>

\* NewsScheduler.stop(): scheduler.shutdown() when the scheduler is running
stop(s) ==
    IF s.started THEN [s EXCEPT !.started = FALSE, !.stopped = TRUE] ELSE s

\* SIGINT or SIGTERM arrives while the daemon is alive: _signal_handler
\* runs on the main thread, in the middle of whatever that thread was
\* doing, and calls stop().  shutdown() waits for the job the scheduler
\* submitted to end before it returns
SignalReceived ==
    /\ sched.started
    /\ sched.main \in {"start", "sleep"}
    /\ sched.handler = "none"
    /\ Frame("main").result # "raised"
    /\ sched' = [stop(sched) EXCEPT !.handler = "stopping"]
    /\ UNCHANGED <<dedupVars, callVars, store, crawl_history, now, config,
                   running, run, nRuns>>

\* _signal_handler, line 51: stop() has returned and sys.exit(0) raises
\* SystemExit on the main thread.  Inside run_daily_crawl no `except
\* Exception` catches it: the finally clause resets _running and the run is
\* left where it was
HandlerExit ==
    /\ sched.handler = "stopping"
    /\ sched.instances = 0
    /\ sched' = [sched EXCEPT !.handler = "exited", !.main = "exited"]
    /\ IF InProgress("main")
       THEN /\ SetFrame("main", [Frame("main") EXCEPT !.pc = "done",
                                                      !.result = "aborted"])
            /\ running' = FALSE
       ELSE UNCHANGED <<running, run>>
    /\ UNCHANGED <<dedupVars, callVars, store, crawl_history, now, config,
                   nRuns>>

NextSched ==
    \/ AddDailyTaskCall
    \/ StartCall
    \/ StartReturn
    \/ CronDue
    \/ CronFire
    \/ JobFinished
    \/ SignalReceived
    \/ HandlerExit
    \/ \E t \in Threads : RunStep(t)

SpecSched == InitSched /\ [][NextSched]_vars

(***************************************************************************)
(* C10: at no time are two orchestrator runs of the same NewsScheduler in  *)
(* progress simultaneously: a cron-fired run never starts while another    *)
(* run (the eager run of start(), a previous cron fire) is still           *)
(* executing.                                                              *)
(***************************************************************************)
C10_NoOverlap == ~(InProgress("main") /\ InProgress("worker"))

\* the part of C10 that holds: the scheduler never runs two instances of the
\* job it submitted
C10_OneSubmittedInstance == sched.instances <= MaxInstances

(***************************************************************************)
(* C13: after stop() has been requested on a started scheduler no further  *)
(* cron-triggered run ever starts (Stopped is terminal), and a run that    *)
(* was in progress when stop() was called still processes its remaining    *)
(* sources and completes.                                                  *)
(***************************************************************************)
CronRunStarts == run["worker"].pc = "idle" /\ run'["worker"].pc # "idle"

C13_StopTerminalRunsComplete ==
    [][/\ sched.stopped => (sched'.stopped /\ ~sched'.started /\ ~CronRunStarts)
       /\ \A t \in Threads : run'[t].result # "aborted"]_vars

\* the part of C13 that holds: Stopped is terminal and no cron-triggered
\* run starts after it
C13_StoppedIsTerminal ==
    [][sched.stopped => (sched'.stopped /\ ~sched'.started /\ ~CronRunStarts)]_vars

\* the part of C13 that holds: the run the scheduler submitted is never cut
\* short, and the process does not exit before it has ended
C13_SubmittedRunCompletes ==
    /\ Frame("worker").result # "aborted"
    /\ sched.handler = "exited" => ~InProgress("worker")

\* the eager run of start() is the one that a stop request cuts short
C13_EagerRunAborted ==
    /\ sched.stopped
    /\ Frame("main").result = "aborted"
    /\ Frame("main").i < Len(Frame("main").websites)

(***************************************************************************)
(* C14: in every reachable state the 'running' field of get_status() is    *)
(* true if and only if an orchestrator run of that scheduler is in         *)
(* progress: it is set when a run starts, is false again after every run   *)
(* whether it ended normally or by an exception, and is not reset while    *)
(* some run is still executing.                                            *)
(***************************************************************************)
\* thread t is inside run_daily_crawl, between `self._running = True` and
\* the finally clause
Executing(t) == Frame(t).pc \notin {"idle", "return", "done"}

\* NewsScheduler.get_status
get_status == [running |-> running, scheduled_jobs |-> Len(sched.jobs)]

C14_RunningIffInProgress ==
    get_status.running <=> \E t \in Threads : Executing(t)

\* the part of C14 that holds: 'running' is never true without a run in
\* progress, so it is false after every run, however the run ended
C14_RunningOnlyDuringRun ==
    get_status.running => \E t \in Threads : Executing(t)

\* the part of C14 that holds: with the runs of one thread alone (run_once)
\* 'running' tells exactly whether the run is in progress
C14_ExactForOneThread ==
    get_status.running = Executing("main")

(***************************************************************************)
(* C19: start(hour, minute) leaves exactly one registered daily trigger    *)
(* (repeated add_daily_task calls replace it rather than add a second      *)
(* one) and then performs exactly one eager orchestrator run,              *)
(* synchronously, before it returns; the cron trigger itself starts at     *)
(* most one run per day.                                                   *)
(***************************************************************************)
\* the fires of the cron trigger that started a run
FiresWithRun == {k \in 1..Len(sched.runs_of_fire) : sched.runs_of_fire[k] > 0}

C19_OneTriggerOneEagerRun ==
    /\ sched.adds > 0 => get_status.scheduled_jobs = 1
    /\ sched.main # "init" =>
          sched.jobs = <<[id |-> "daily_crawl", trigger |-> StartTime]>>
    /\ sched.eager = (IF sched.main = "init" THEN 0 ELSE 1)
    /\ nRuns = sched.eager + Cardinality(FiresWithRun)
    /\ sched.main = "start" => Frame("main").pc # "idle"
    /\ sched.main = "sleep" =>
          Frame("main").pc = "done" /\ Frame("main").result = "returned"
    /\ \A k \in 1..Len(sched.runs_of_fire) : sched.runs_of_fire[k] <= 1

\* add_daily_task was called before start(), start() has returned after its
\* eager run, and the cron trigger has started a run on a later day
C19_Witness ==
    /\ sched.adds = 2
    /\ sched.main = "sleep"
    /\ Len(sched.jobs) = 1
    /\ sched.eager = 1
    /\ Frame("main").result = "returned"
    /\ \E k \in 1..Len(sched.runs_of_fire) : sched.runs_of_fire[k] = 1
    /\ nRuns = 2

(***************************************************************************)
(* C24: across any sequence of runs (eager, cron-fired, run_once) of one   *)
(* NewsScheduler the dedup index only grows: every URL, title fingerprint  *)
(* and content fingerprint present after one step is present in every      *)
(* later state, because no run calls clear(); only an explicit clear()     *)
(* empties the three structures, and it empties all three.                 *)
(***************************************************************************)
IsPrefix(p, q) == Len(p) <= Len(q) /\ SubSeq(q, 1, Len(p)) = p

IndexGrows ==
    /\ seen_urls \subseteq seen_urls'
    /\ seen_hashes \subseteq seen_hashes'
    /\ DOMAIN title_index \subseteq DOMAIN title_index'
    /\ \A k \in DOMAIN title_index : IsPrefix(title_index[k], title_index'[k])

ClearEmptiesAll ==
    /\ clear(D).urls = {}
    /\ clear(D).hashes = {}
    /\ DOMAIN clear(D).titles = {}

C24_IndexOnlyGrows == [][IndexGrows]_vars /\ []ClearEmptiesAll

\* the eager run and a cron-fired run have both ended, both kinds of
\* fingerprint are in the index, and the store holds fewer URLs than the
\* index
C24_Witness ==
    /\ nRuns = 2
    /\ Frame("main").pc = "done"
    /\ Frame("worker").pc = "done"
    /\ seen_urls # {}
    /\ seen_hashes # {}
    /\ DOMAIN title_index # {}

(***************************************************************************)
(* C27: on every entry path to a run (the eager run of start(), a cron     *)
(* fire, a standalone run_once()) the Deduplicator is seeded from the      *)
(* Article Store before the first spider is invoked, and a failure of the  *)
(* history read does not abort the run: it proceeds with the index as it   *)
(* was.                                                                    *)
(***************************************************************************)
\* the URLs that the history read returns in the current state
SeedUrls ==
    LET rows == get_recent_articles(store, now, SeedWindowDays, RecentLimit)
    IN {rows[k].url : k \in 1..Len(rows)}

\* the step of thread t that leaves _load_seen_urls (the exit of the
\* process in the signal handler, which ends whatever the main thread was
\* doing, is no step of the run)
SeedingStep(t) ==
    (run[t].pc = "load_seen" /\ run'[t] # run[t] /\ run'[t].result # "aborted") =>
       /\ run'[t].pc = "crawl"
       /\ run'[t].visits = << >>
       /\ run'[t].seeded => SeedUrls \subseteq seen_urls'
       /\ ~run'[t].seeded => UNCHANGED dedupVars

\* a spider is invoked only by a thread that has left _load_seen_urls
SpiderStep(t) ==
    Len(run'[t].visits) > Len(run[t].visits) => run[t].pc = "crawl"

C27_SeededBeforeFirstSpider ==
    [][\A t \in Threads : SeedingStep(t) /\ SpiderStep(t)]_vars

\* the eager run was seeded, the history read of the cron-fired run
\* failed, and both went on to invoke their spiders
C27_Witness ==
    /\ Frame("main").seeded
    /\ Frame("main").visits # << >>
    /\ Frame("worker").pc = "done"
    /\ ~Frame("worker").seeded
    /\ Frame("worker").visits # << >>
    /\ Frame("worker").result = "returned"

(***************************************************************************)
(* C29: when SIGINT or SIGTERM arrives, the handler first calls stop() and *)
(* only then terminates the process; if a crawl is in progress at that     *)
(* moment (in the main thread's eager run or in the cron worker), the      *)
(* interrupt does not cut that crawl off in the middle of a source.        *)
(***************************************************************************)
\* the run of thread t was ended by the exit of the process while it was
\* in the loop over the sources (i is the source it was at)
CutOffAtSource(t) ==
    /\ Frame(t).result = "aborted"
    /\ Frame(t).i \in 1..Len(Frame(t).websites)

C29_InterruptSparesCrawl ==
    /\ sched.handler \in {"stopping", "exited"} => sched.stopped
    /\ \A t \in Threads : ~CutOffAtSource(t)

\* the part of C29 that holds: stop() comes before the exit, and the crawl
\* of the cron worker is never cut off
C29_StopFirstWorkerSpared ==
    /\ sched.handler \in {"stopping", "exited"} => sched.stopped /\ ~sched.started
    /\ ~CutOffAtSource("worker")
    /\ sched.handler = "exited" => Frame("worker").pc \in {"idle", "done"}

(***************************************************************************)
(* C30: no emitted article is silently lost across runs of one             *)
(* NewsScheduler: every article that was marked seen in the dedup index    *)
(* during a run is either persisted in the Article Store by that run, or   *)
(* is emitted again by a later run that crawls it again; in particular, if *)
(* save_articles fails in a run, the articles of that batch are still      *)
(* eligible to be emitted and saved by the next run.                       *)
(***************************************************************************)
\* the articles that the run of thread t kept, and so marked seen
MarkedSeenBy(t) ==
    UNION {{Frame(t).visits[v].kept[k] : k \in 1..Len(Frame(t).visits[v].kept)} :
              v \in 1..Len(Frame(t).visits)}

\* the articles that the spiders produced for the run of thread t
CrawledBy(t) ==
    UNION {LET site == Frame(t).websites[Frame(t).visits[v].site]
           IN IF Frame(t).visits[v].appended
              THEN {spider_crawl(site)[k] : k \in 1..Len(spider_crawl(site))}
              ELSE {} :
              v \in 1..Len(Frame(t).visits)}

\* an article marked seen by an ended run of thread t1 and crawled again by
\* a run of thread t2 that has returned (t2 did not keep it, so it crawled
\* it after t1 had marked it) is in the store or in the batch of t2
C30_NoArticleLost ==
    \A t1, t2 \in Threads :
       (/\ t1 # t2
        /\ Frame(t1).pc = "done"
        /\ Frame(t2).pc = "done"
        /\ Frame(t2).result = "returned")
       => \A a \in MarkedSeenBy(t1) \cap CrawledBy(t2) :
             \/ a.url \in StoredUrls(store)
             \/ \E k \in 1..Len(Frame(t2).batch) : Frame(t2).batch[k] = a

\* what holds: a run whose save_articles call succeeded has persisted
\* every article it marked seen
C30_PersistedWhenSaved ==
    \A t \in Threads :
       Frame(t).pc = "notify" =>
          \A a \in MarkedSeenBy(t) : a.url \in StoredUrls(store)

(***************************************************************************)
(* The spiders (spiders/base_spider.py, scrapy_spider.py, rss_spider.py,   *)
(* playwright_spider.py).  A call is [raised, ...]: raised tells whether   *)
(* an exception left the call, the other fields are what it returned.  A   *)
(* page is what the network holds under one URL: attempts[k] is what the   *)
(* k-th session.get for it meets, content_type and body are what a         *)
(* successful get answers.  None is << >>, a value v is <<v>>.             *)
(***************************************************************************)
MaxRetries == 3             \* largest spider.retry_times configured

\* what one attempt of session.get / raise_for_status meets: success, a
\* requests.RequestException, or an exception of another class (requests
\* lets some exceptions of the transport below it through unwrapped)
AttemptKinds == {"ok", "RequestException", "Exception"}

Pages ==
    [attempts : [1..MaxRetries -> AttemptKinds],
     content_type : {"text/html"},
     body : {"body"}]

SpiderDelay == 1            \* spider.delay, the argument of time.sleep

\* the for loop of _make_request from attempt number `attempt` on;
\* attempts: how many session.get calls were made, sleeps: the arguments
\* of the time.sleep calls, in order
RECURSIVE RequestLoop(_, _, _)
RequestLoop(page, attempt, retries) ==
    IF attempt > retries
    THEN [raised |-> FALSE, response |-> << >>, attempts |-> retries,
          sleeps |-> << >>]
    ELSE CASE page.attempts[attempt] = "ok" ->
                [raised |-> FALSE,
                 response |-> <<[content_type |-> page.content_type,
                                 body |-> page.body]>>,
                 attempts |-> attempt, sleeps |-> << >>]
           [] page.attempts[attempt] = "RequestException" ->
                [RequestLoop(page, attempt + 1, retries) EXCEPT
                    !.sleeps = (IF attempt < retries THEN <<SpiderDelay>>
                                ELSE << >>) \o @]
           [] OTHER ->
                [raised |-> TRUE, response |-> << >>, attempts |-> attempt,
                 sleeps |-> << >>]

\* BaseSpider._make_request(url, retries)
_make_request(page, retries) == RequestLoop(page, 1, retries)

\* BaseSpider._create_article
_create_article(title, url) == [title |-> title, url |-> url]

\* ScrapySpider._crawl_article(url, title)
_crawl_article(page, retries, url, title) ==
    LET r == _make_request(page, retries) IN
    IF r.raised THEN [raised |-> TRUE, article |-> << >>]
    ELSE IF r.response = << >> THEN [raised |-> FALSE, article |-> << >>]
    ELSE [raised |-> FALSE, article |-> <<_create_article(title, url)>>]

(***************************************************************************)
(* SpecRequest: one _make_request, or one _crawl_article, on a page.       *)
(***************************************************************************)
InitRequest ==
    /\ OrchUnused
    /\ SetDInit(NewDeduplicator)
    /\ returned = << >>
    /\ nCalls = 0
    /\ \E page \in Pages, retries \in 0..MaxRetries :
          lastOp = [op |-> "input", page |-> page, retries |-> retries]

MakeRequestCall ==
    /\ UNCHANGED orchVars
    /\ lastOp.op = "input"
    /\ lastOp' = [op |-> "_make_request", page |-> lastOp.page,
                  retries |-> lastOp.retries,
                  result |-> _make_request(lastOp.page, lastOp.retries)]
    /\ UNCHANGED <<seen_urls, seen_hashes, title_index, returned, nCalls>>

CrawlArticleCall ==
    /\ UNCHANGED orchVars
    /\ lastOp.op = "input"
    /\ lastOp' = [op |-> "_crawl_article", page |-> lastOp.page,
                  retries |-> lastOp.retries,
                  request |-> _make_request(lastOp.page, lastOp.retries),
                  result |-> _crawl_article(lastOp.page, lastOp.retries,
                                            1, <<"x">>)]
    /\ UNCHANGED <<seen_urls, seen_hashes, title_index, returned, nCalls>>

NextRequest == MakeRequestCall \/ CrawlArticleCall

SpecRequest == InitRequest /\ [][NextRequest]_vars

\* every attempt the call was allowed failed
EveryAttemptFailed(page, retries) ==
    \A k \in 1..retries : page.attempts[k] # "ok"

(***************************************************************************)
(* C12: _make_request never raises to its caller: when every attempt       *)
(* fails, for any kind of failure, it returns None, and it returns a       *)
(* response only if some attempt succeeded; _crawl_article produces no     *)
(* article for a page that came back as None.                              *)
(***************************************************************************)
C12_RequestNeverRaises ==
    /\ lastOp.op = "_make_request" =>
          /\ ~lastOp.result.raised
          /\ EveryAttemptFailed(lastOp.page, lastOp.retries)
                => lastOp.result.response = << >>
          /\ lastOp.result.response # << >>
                => \E k \in 1..lastOp.retries : lastOp.page.attempts[k] = "ok"
    /\ lastOp.op = "_crawl_article" =>
          (lastOp.request.response = << >> => lastOp.result.article = << >>)

\* the part of C12 that holds: with failures that are RequestExceptions only
C12_RequestExceptionsOnly ==
    (/\ lastOp.op \in {"_make_request", "_crawl_article"}
     /\ \A k \in 1..lastOp.retries :
           lastOp.page.attempts[k] # "Exception")
    => /\ ~lastOp.result.raised
       /\ lastOp.op = "_make_request" =>
             (lastOp.result.response = << >>
                <=> EveryAttemptFailed(lastOp.page, lastOp.retries))
       /\ lastOp.op = "_crawl_article" =>
             (lastOp.result.article = << >>
                <=> EveryAttemptFailed(lastOp.page, lastOp.retries))

(***************************************************************************)
(* C28: for a configured attempt count N >= 1, _make_request performs at   *)
(* most N fetch attempts, stops at the first successful one, retries after *)
(* every failed attempt that is not the last, sleeps the same constant     *)
(* delay between consecutive attempts and never after the final one (at    *)
(* most N-1 sleeps, no growing backoff), and always terminates.            *)
(***************************************************************************)
BoundedAttempts(op) ==
    /\ op.result.attempts \in 1..op.retries
    /\ op.result.response # << >> <=> op.page.attempts[op.result.attempts] = "ok"
    /\ \A k \in 1..(op.result.attempts - 1) : op.page.attempts[k] # "ok"

FixedDelaySleeps(op) ==
    /\ Len(op.result.sleeps) = op.result.attempts - 1
    /\ Len(op.result.sleeps) <= op.retries - 1
    /\ \A k \in 1..Len(op.result.sleeps) : op.result.sleeps[k] = SpiderDelay

\* every attempt before the N-th that failed with one of `kinds` was
\* followed by another attempt
RetriedAfter(op, kinds) ==
    \A k \in 1..(op.retries - 1) :
       (k <= op.result.attempts /\ op.page.attempts[k] \in kinds)
          => op.result.attempts > k

C28_BoundedFixedDelayRetries ==
    (lastOp.op = "_make_request" /\ lastOp.retries >= 1) =>
       /\ BoundedAttempts(lastOp)
       /\ FixedDelaySleeps(lastOp)
       /\ RetriedAfter(lastOp, AttemptKinds \ {"ok"})

\* the part of C28 that holds: the bounds on attempts and sleeps hold for
\* every kind of failure, and an attempt that failed with a
\* requests.RequestException is retried
C28_BoundsAndRequestExceptionRetries ==
    (lastOp.op = "_make_request" /\ lastOp.retries >= 1) =>
       /\ BoundedAttempts(lastOp)
       /\ FixedDelaySleeps(lastOp)
       /\ RetriedAfter(lastOp, {"RequestException"})

\* N attempts that all failed with a RequestException: N - 1 sleeps
C28_AllAttemptsUsed ==
    /\ lastOp.op = "_make_request"
    /\ lastOp.retries = MaxRetries
    /\ lastOp.result.attempts = MaxRetries
    /\ lastOp.result.response = << >>
    /\ ~lastOp.result.raised
    /\ Len(lastOp.result.sleeps) = MaxRetries - 1

(***************************************************************************)
(* RSSSpider._get_feed_url.  A URL is [host, path]; urljoin of a base URL  *)
(* and a path that starts with "/" keeps the host and replaces the path.   *)
(* probes[k] is what the network holds under the k-th common path.         *)
(***************************************************************************)
common_paths ==
    <<"/rss", "/feed", "/feed.xml", "/rss.xml", "/atom.xml", "/rss/feed.xml">>

urljoin(base, path) == [host |-> base.host, path |-> path]

\* the Content-Type headers a probe may answer with; "" is a missing header
ContentTypes == {"application/rss+xml", "TEXT/XML", "text/html", ""}

\* 'xml' in content_type.lower()
HasXml(content_type) == content_type \in {"application/rss+xml", "TEXT/XML"}

\* what a probed path holds: a page answered at once with a content type, a
\* page every attempt for which fails with a RequestException, a page whose
\* first attempt raises another exception
ProbeKinds == ContentTypes \cup {"RequestException", "Exception"}

ProbePage(kind) ==
    [attempts |-> [k \in 1..MaxRetries |->
                      IF kind \in ContentTypes THEN "ok" ELSE kind],
     content_type |-> IF kind \in ContentTypes THEN kind ELSE "",
     body |-> "body"]

\* the for loop over common_paths from position k on
RECURSIVE ProbeLoop(_, _, _, _, _)
ProbeLoop(base_url, probes, retries, k, probed) ==
    IF k > Len(common_paths)
    THEN [raised |-> FALSE, url |-> << >>, probed |-> probed]
    ELSE LET url == urljoin(base_url, common_paths[k])
             r == _make_request(ProbePage(probes[k]), retries)
             now_probed == Append(probed, common_paths[k])
         IN IF r.raised
            THEN [raised |-> TRUE, url |-> << >>, probed |-> now_probed]
            ELSE IF r.response # << >> /\ HasXml(r.response[1].content_type)
            THEN [raised |-> FALSE, url |-> <<url>>, probed |-> now_probed]
            ELSE ProbeLoop(base_url, probes, retries, k + 1, now_probed)

\* RSSSpider._get_feed_url
_get_feed_url(base_url, rss_url, probes, retries) ==
    IF rss_url # << >>
    THEN [raised |-> FALSE, url |-> rss_url, probed |-> << >>]
    ELSE ProbeLoop(base_url, probes, retries, 1, << >>)

(***************************************************************************)
(* SpecFeed: one _get_feed_url on a feed source.                           *)
(***************************************************************************)
BaseUrls == {[host |-> "example.com", path |-> ""],
             [host |-> "example.com", path |-> "/news/"]}

ExplicitFeedUrl == [host |-> "feeds.example.com", path |-> "/all.xml"]

InitFeed ==
    /\ OrchUnused
    /\ SetDInit(NewDeduplicator)
    /\ returned = << >>
    /\ nCalls = 0
    /\ \E base_url \in BaseUrls, rss_url \in {<< >>, <<ExplicitFeedUrl>>},
          probes \in [1..Len(common_paths) -> ProbeKinds] :
          lastOp = [op |-> "input", base_url |-> base_url,
                    rss_url |-> rss_url, probes |-> probes]

GetFeedUrlCall ==
    /\ UNCHANGED orchVars
    /\ lastOp.op = "input"
    /\ lastOp' = [op |-> "_get_feed_url", base_url |-> lastOp.base_url,
                  rss_url |-> lastOp.rss_url, probes |-> lastOp.probes,
                  result |-> _get_feed_url(lastOp.base_url, lastOp.rss_url,
                                           lastOp.probes, MaxRetries)]
    /\ UNCHANGED <<seen_urls, seen_hashes, title_index, returned, nCalls>>

NextFeed == GetFeedUrlCall

SpecFeed == InitFeed /\ [][NextFeed]_vars

\* the fetch of the k-th common path succeeds with an XML content type
Qualifies(probes, k) == probes[k] \in ContentTypes /\ HasXml(probes[k])

\* what the claim says of a call without an explicit feed URL: the paths
\* are probed in order up to the first that qualifies, which is returned
ProbedInOrderUpToFirst(op) ==
    LET n == Len(common_paths)
        hits == {k \in 1..n : Qualifies(op.probes, k)}
    IN IF hits = {}
       THEN /\ op.result.url = << >>
            /\ op.result.probed = common_paths
       ELSE LET first == CHOOSE k \in hits : \A j \in hits : k <= j
            IN /\ op.result.url =
                     <<urljoin(op.base_url, common_paths[first])>>
               /\ op.result.probed = SubSeq(common_paths, 1, first)

(***************************************************************************)
(* C17: without an explicit feed URL, _get_feed_url probes /rss, /feed,    *)
(* /feed.xml, /rss.xml, /atom.xml, /rss/feed.xml against the base URL in   *)
(* that order, returns the first whose fetch succeeds with a content type  *)
(* containing 'xml', probes no path after it, and returns no URL if none   *)
(* qualifies; with an explicit feed URL it returns that and probes nothing.*)
(***************************************************************************)
C17_ProbesInOrder ==
    lastOp.op = "_get_feed_url" =>
       /\ ~lastOp.result.raised
       /\ IF lastOp.rss_url # << >>
          THEN /\ lastOp.result.url = lastOp.rss_url
               /\ lastOp.result.probed = << >>
          ELSE ProbedInOrderUpToFirst(lastOp)

\* the part of C17 that holds: the same, for the calls that return; a call
\* that raises has probed the paths in order up to the one that raised,
\* none of which qualified
C17_ProbesInOrderWhenReturning ==
    lastOp.op = "_get_feed_url" =>
       IF lastOp.rss_url # << >>
       THEN /\ ~lastOp.result.raised
            /\ lastOp.result.url = lastOp.rss_url
            /\ lastOp.result.probed = << >>
       ELSE IF ~lastOp.result.raised
       THEN ProbedInOrderUpToFirst(lastOp)
       ELSE LET n == Len(lastOp.result.probed) IN
            /\ n >= 1
            /\ lastOp.result.probed = SubSeq(common_paths, 1, n)
            /\ lastOp.probes[n] = "Exception"
            /\ \A k \in 1..n : ~Qualifies(lastOp.probes, k)

(***************************************************************************)
(* List parsing (BaseSpider._parse_list_page; the browser-driven spider's  *)
(* _parse_list_page_async follows the same steps).  The text of a URL is   *)
(* the sequence of its host and the pieces of its path; a pattern is a     *)
(* sequence of pieces, and `pattern in link` is containment of a           *)
(* contiguous run.  An element of the list page is [title, href, broken,   *)
(* detail]: href is None, a path ([host |-> << >>, path]) or an absolute   *)
(* URL ([host |-> <<h>>, path]); broken elements raise while they are      *)
(* read; detail is what the detail page of the item holds.                 *)
(***************************************************************************)
MaxElements == 2            \* longest list page

DefaultMaxItems == 50       \* spider.max_items_per_source when not configured

UrlText(url) == <<url.host>> \o url.path

Contains(text, pattern) ==
    \E k \in 0..(Len(text) - Len(pattern)) :
       SubSeq(text, k + 1, k + Len(pattern)) = pattern

\* getattr(self.config, 'exclude_patterns', [])
ExcludePatternsOf(website) ==
    IF "exclude_patterns" \in DOMAIN website
    THEN website.exclude_patterns ELSE << >>

\* lines 158-161: a link that does not start with 'http' is joined to the
\* base URL
ResolveLink(base_url, href) ==
    IF href.host # << >>
    THEN [host |-> href.host[1], path |-> href.path]
    ELSE urljoin(base_url, href.path)

\* the body of the loop of _parse_list_page for one element: the item it
\* appends, or none
ParseElement(website, elem) ==
    IF elem.broken \/ elem.title = "" \/ elem.href = << >> THEN << >>
    ELSE LET link == ResolveLink(website.url, elem.href[1])
             exclude_patterns == ExcludePatternsOf(website)
         IN IF \E k \in 1..Len(exclude_patterns) :
                  Contains(UrlText(link), exclude_patterns[k])
            THEN << >>
            ELSE <<[title |-> elem.title, url |-> link,
                    detail |-> elem.detail]>>

RECURSIVE ParseElements(_, _)
ParseElements(website, elements) ==
    IF elements = << >> THEN << >>
    ELSE ParseElement(website, Head(elements))
         \o ParseElements(website, Tail(elements))

\* elements[:self.max_items]
FirstN(s, n) == IF Len(s) <= n THEN s ELSE SubSeq(s, 1, n)

\* BaseSpider._parse_list_page
_parse_list_page(website, elements, max_items) ==
    ParseElements(website, FirstN(elements, max_items))

(***************************************************************************)
(* The three spiders.  `web` is what the source's site holds when it is    *)
(* crawled.  Exceptions here are instances of Exception; an interrupt is   *)
(* modelled where the code handles one (PlaywrightSpider._crawl_impl).     *)
(***************************************************************************)
ItemKinds == {"article", "none", "Exception"}

\* the detail page of an item: served at once, failing every attempt with a
\* RequestException, or raising another exception
ItemPage(kind) ==
    [attempts |-> [k \in 1..MaxRetries |->
                      CASE kind = "article" -> "ok"
                        [] kind = "none" -> "RequestException"
                        [] OTHER -> "Exception"],
     content_type |-> "text/html",
     body |-> "body"]

Raised == [raised |-> TRUE, articles |-> << >>]

Returned(articles) == [raised |-> FALSE, articles |-> articles]

\* ScrapySpider._crawl_impl, lines 36-44: `except Exception: continue`
RECURSIVE CrawlItems(_, _)
CrawlItems(items, retries) ==
    IF items = << >> THEN << >>
    ELSE LET item == Head(items)
             r == _crawl_article(ItemPage(item.detail), retries,
                                 item.url, item.title)
         IN (IF r.raised THEN << >> ELSE r.article)
            \o CrawlItems(Tail(items), retries)

\* ScrapySpider._crawl_impl; web.parse = "Exception": building or querying
\* the parse tree of the list page raises
ScrapySpider_crawl_impl(website, web, retries) ==
    LET r == _make_request(web.list_page, retries) IN
    IF r.raised THEN Raised
    ELSE IF r.response = << >> THEN Returned(<< >>)
    ELSE IF web.parse = "Exception" THEN Raised
    ELSE Returned(CrawlItems(
            _parse_list_page(website, web.elements, web.max_items), retries))

\* RSSSpider._parse_entry: None without a title or a link; datetime(*None[:6])
\* raises when published_parsed is present and None
_parse_entry(entry) ==
    IF entry.title = "" \/ entry.link = << >>
    THEN [raised |-> FALSE, article |-> << >>]
    ELSE IF entry.bad_date THEN [raised |-> TRUE, article |-> << >>]
    ELSE [raised |-> FALSE,
          article |-> <<_create_article(entry.title, entry.link[1])>>]

\* RSSSpider._crawl_impl, lines 44-51
RECURSIVE ParseEntries(_)
ParseEntries(entries) ==
    IF entries = << >> THEN << >>
    ELSE LET r == _parse_entry(Head(entries)) IN
         (IF r.raised THEN << >> ELSE r.article) \o ParseEntries(Tail(entries))

\* RSSSpider._crawl_impl; web.parse = "Exception": feedparser.parse raises,
\* which the try of lines 37-54 catches
RSSSpider_crawl_impl(website, web, retries) ==
    LET f == _get_feed_url(website.url, website.rss_url, web.probes, retries)
    IN IF f.raised THEN Raised
       ELSE IF f.url = << >> THEN Returned(<< >>)
       ELSE IF web.parse = "Exception" THEN Returned(<< >>)
       ELSE Returned(ParseEntries(FirstN(web.entries, web.max_items)))

\* PlaywrightSpider._crawl_article_async: every exception ends in None
_crawl_article_async(item) ==
    IF item.detail = "article"
    THEN <<_create_article(item.title, item.url)>> ELSE << >>

RECURSIVE CrawlItemsAsync(_)
CrawlItemsAsync(items) ==
    IF items = << >> THEN << >>
    ELSE _crawl_article_async(Head(items)) \o CrawlItemsAsync(Tail(items))

\* PlaywrightSpider._crawl_impl_async; web.load = "Exception": the import,
\* the browser launch or the goto of the list page raises, which the try of
\* lines 104-153 catches (as it catches a failing browser.close())
_crawl_impl_async(website, web) ==
    IF web.load = "Exception" THEN Returned(<< >>)
    ELSE Returned(CrawlItemsAsync(
            _parse_list_page(website, web.elements, web.max_items)))

\* PlaywrightSpider._crawl_impl; web.run: asyncio.run itself raises, or the
\* run is interrupted from the keyboard
PlaywrightSpider_crawl_impl(website, web) ==
    CASE web.run = "Exception" -> Raised
      [] web.run = "KeyboardInterrupt" -> Returned(<< >>)
      [] OTHER -> _crawl_impl_async(website, web)

_crawl_impl(website, web, retries) ==
    CASE website.type = "rss" -> RSSSpider_crawl_impl(website, web, retries)
      [] website.type = "playwright" -> PlaywrightSpider_crawl_impl(website, web)
      [] OTHER -> ScrapySpider_crawl_impl(website, web, retries)

\* crawl() without its try/except
crawl_without_except(website, web, retries) ==
    _crawl_impl(website, web, retries)

\* BaseSpider.crawl
crawl(website, web, retries) ==
    LET r == _crawl_impl(website, web, retries) IN
    IF r.raised THEN Returned(<< >>) ELSE r

(***************************************************************************)
(* The WebsiteConfig the orchestrator builds from an entry of the source   *)
(* list (scheduler.py:130-142): the keys it copies, nothing else.          *)
(***************************************************************************)
WebsiteConfig(site_config) ==
    [name |-> site_config.name,
     url |-> site_config.url,
     type |-> IF "type" \in DOMAIN site_config
              THEN site_config.type ELSE "scrapy",
     rss_url |-> IF "rss_url" \in DOMAIN site_config
                 THEN site_config.rss_url ELSE << >>]

(***************************************************************************)
(* SpecCrawl: one crawl() of a spider of each variant on a site.           *)
(***************************************************************************)
RelativeLink(path) == [host |-> << >>, path |-> path]

AbsoluteLink(host, path) == [host |-> <<host>>, path |-> path]

ElementPool ==
    {[title |-> "x", href |-> <<RelativeLink(<<"/n/", "1">>)>>,
      broken |-> FALSE, detail |-> "article"],
     [title |-> "x", href |-> <<RelativeLink(<<"/ad/", "1">>)>>,
      broken |-> FALSE, detail |-> "article"],
     [title |-> "y", href |-> <<AbsoluteLink("other.com", <<"/n/", "2">>)>>,
      broken |-> FALSE, detail |-> "none"],
     [title |-> "", href |-> <<RelativeLink(<<"/n/", "3">>)>>,
      broken |-> FALSE, detail |-> "article"],
     [title |-> "b", href |-> <<RelativeLink(<<"/n/", "4">>)>>,
      broken |-> FALSE, detail |-> "Exception"],
     [title |-> "c", href |-> << >>, broken |-> TRUE, detail |-> "article"]}

EntryPool ==
    {[title |-> "x", link |-> <<[host |-> "example.com", path |-> <<"/n/", "1">>]>>,
      bad_date |-> FALSE],
     [title |-> "y", link |-> <<[host |-> "example.com", path |-> <<"/n/", "2">>]>>,
      bad_date |-> TRUE],
     [title |-> "", link |-> <<[host |-> "example.com", path |-> <<"/n/", "3">>]>>,
      bad_date |-> FALSE],
     [title |-> "b", link |-> << >>, bad_date |-> FALSE]}

\* no path qualifies; the third does; the first probe raises
FeedSamples ==
    {[k \in 1..Len(common_paths) |-> "RequestException"],
     [k \in 1..Len(common_paths) |->
         IF k = 3 THEN "application/rss+xml"
         ELSE IF k = 1 THEN "text/html" ELSE "RequestException"],
     [k \in 1..Len(common_paths) |->
         IF k = 1 THEN "Exception" ELSE "application/rss+xml"]}

MaxItemsValues == {1, DefaultMaxItems}

SiteConfigs ==
    {[name |-> "s", url |-> b, type |-> "scrapy"] : b \in BaseUrls}
    \cup {[name |-> "s", url |-> b, type |-> "playwright"] : b \in BaseUrls}
    \cup {[name |-> "s", url |-> b, type |-> "rss", rss_url |-> r] :
             b \in BaseUrls, r \in {<< >>, <<ExplicitFeedUrl>>}}

WebsOf(type) ==
    CASE type = "rss" ->
           [probes : FeedSamples, parse : {"ok", "Exception"},
            entries : SeqsUpTo(EntryPool, MaxElements),
            max_items : MaxItemsValues]
      [] type = "playwright" ->
           [run : {"ok", "Exception", "KeyboardInterrupt"},
            load : {"ok", "Exception"},
            elements : SeqsUpTo(ElementPool, MaxElements),
            max_items : MaxItemsValues]
      [] OTHER ->
           [list_page : {ItemPage(kind) : kind \in ItemKinds},
            parse : {"ok", "Exception"},
            elements : SeqsUpTo(ElementPool, MaxElements),
            max_items : MaxItemsValues]

InitCrawl ==
    /\ OrchUnused
    /\ SetDInit(NewDeduplicator)
    /\ returned = << >>
    /\ nCalls = 0
    /\ \E site_config \in SiteConfigs :
          \E web \in WebsOf(site_config.type) :
             lastOp = [op |-> "input", website |-> WebsiteConfig(site_config),
                       web |-> web]

CrawlCall ==
    /\ UNCHANGED orchVars
    /\ lastOp.op = "input"
    /\ lastOp' = [op |-> "crawl", website |-> lastOp.website,
                  web |-> lastOp.web,
                  impl |-> _crawl_impl(lastOp.website, lastOp.web, MaxRetries),
                  result |-> crawl(lastOp.website, lastOp.web, MaxRetries)]
    /\ UNCHANGED <<seen_urls, seen_hashes, title_index, returned, nCalls>>

NextCrawl == CrawlCall

SpecCrawl == InitCrawl /\ [][NextCrawl]_vars

\* the articles a crawl gathers when nothing but single items fail: one per
\* list element (feed entry) among the first max_items that can be read and
\* whose article can be fetched, in page order
GatheredFrom(website, web) ==
    IF website.type = "rss"
    THEN LET good == SelectSeq(FirstN(web.entries, web.max_items),
                        LAMBDA e : e.title # "" /\ e.link # << >> /\ ~e.bad_date)
         IN [k \in 1..Len(good) |->
                [title |-> good[k].title, url |-> good[k].link[1]]]
    ELSE LET good == SelectSeq(FirstN(web.elements, web.max_items),
                        LAMBDA e : /\ ~e.broken
                                   /\ e.title # ""
                                   /\ e.href # << >>
                                   /\ e.detail = "article")
         IN [k \in 1..Len(good) |->
                [title |-> good[k].title,
                 url |-> ResolveLink(website.url, good[k].href[1])]]

C11_WitnessPartial ==
    /\ lastOp.op = "crawl"
    /\ lastOp.website.type = "scrapy"
    /\ Len(lastOp.web.elements) = 2
    /\ lastOp.web.elements[1].detail = "Exception"
    /\ Len(lastOp.result.articles) = 1

(***************************************************************************)
(* SpecList: a static source whose entry in the source list carries        *)
(* exclude_patterns.  Its list page is parsed by a spider whose config     *)
(* object has the attribute, or the source is crawled the way the          *)
(* orchestrator does it: WebsiteConfig built from the entry, spider built  *)
(* from the WebsiteConfig, crawl(), deduplicate, append to the batch.      *)
(***************************************************************************)
PatternLists == {<< >>, << <<"/ad/">> >>, << <<"other.com">>, <<"/ad/", "1">> >>}

ListSiteConfigs ==
    {[name |-> "s", url |-> b, type |-> "scrapy", exclude_patterns |-> ps] :
        b \in BaseUrls, ps \in PatternLists}

\* a config object that has the attribute exclude_patterns
WithExcludePatterns(website, patterns) ==
    [f \in DOMAIN website \cup {"exclude_patterns"} |->
        IF f = "exclude_patterns" THEN patterns ELSE website[f]]

\* the NewsArticle of a spider's article, as the Deduplicator reads it
NewsArticleOf(a) ==
    [url |-> a.url, title |-> <<a.title>>, source |-> <<"c">>,
     publish_time |-> << >>, summary |-> NoSummary]

\* the page of a static source all of whose fetches succeed
ServedSite(elements) ==
    [list_page |-> ItemPage("article"), parse |-> "ok",
     elements |-> elements, max_items |-> DefaultMaxItems]

InitList ==
    /\ OrchUnused
    /\ SetDInit(NewDeduplicator)
    /\ returned = << >>
    /\ nCalls = 0
    /\ \E site_config \in ListSiteConfigs,
          elements \in SeqsUpTo(ElementPool, MaxElements) :
          lastOp = [op |-> "input", site_config |-> site_config,
                    elements |-> elements]

ParseListPageCall ==
    /\ UNCHANGED orchVars
    /\ lastOp.op = "input"
    /\ lastOp' = [op |-> "_parse_list_page",
                  site_config |-> lastOp.site_config,
                  elements |-> lastOp.elements,
                  items |-> _parse_list_page(
                               WithExcludePatterns(
                                  WebsiteConfig(lastOp.site_config),
                                  lastOp.site_config.exclude_patterns),
                               lastOp.elements, DefaultMaxItems)]
    /\ UNCHANGED <<seen_urls, seen_hashes, title_index, returned, nCalls>>

\* _crawl_all_websites over the one source, scheduler.py:127-177
CrawlSourceCall ==
    /\ UNCHANGED orchVars
    /\ lastOp.op = "input"
    /\ LET website == WebsiteConfig(lastOp.site_config)
           found == crawl(website, ServedSite(lastOp.elements), MaxRetries)
           site == [fail |-> "none",
                    articles |-> [k \in 1..Len(found.articles) |->
                                     NewsArticleOf(found.articles[k])]]
           c == CrawlOne(D, << >>, site, 1, FALSE)
       IN /\ SetD(c.d)
          /\ lastOp' = [op |-> "_crawl_all_websites",
                        site_config |-> lastOp.site_config,
                        elements |-> lastOp.elements,
                        batch |-> c.acc]
    /\ UNCHANGED <<returned, nCalls>>

NextList == ParseListPageCall \/ CrawlSourceCall

SpecList == InitList /\ [][NextList]_vars

\* the URL contains one of the source's exclusion patterns
IsExcluded(site_config, url) ==
    \E k \in 1..Len(site_config.exclude_patterns) :
       Contains(UrlText(url), site_config.exclude_patterns[k])

(***************************************************************************)
(* C18: for a source configured with exclusion patterns, no list item      *)
(* whose resolved absolute URL contains one of the patterns is returned by *)
(* the static spider's list parsing, and no article with such a URL        *)
(* reaches the batch of an orchestrator run over that source.              *)
(***************************************************************************)
C18_ExcludedNeverReturned ==
    /\ lastOp.op = "_parse_list_page" =>
          \A k \in 1..Len(lastOp.items) :
             ~IsExcluded(lastOp.site_config, lastOp.items[k].url)
    /\ lastOp.op = "_crawl_all_websites" =>
          \A k \in 1..Len(lastOp.batch) :
             ~IsExcluded(lastOp.site_config, lastOp.batch[k].url)

\* the part of C18 that holds: list parsing by a spider whose config object
\* has the patterns drops exactly the items whose resolved URL contains one
C18_ListParsingExcludes ==
    lastOp.op = "_parse_list_page" =>
       /\ \A k \in 1..Len(lastOp.items) :
             ~IsExcluded(lastOp.site_config, lastOp.items[k].url)
       /\ \A k \in 1..Len(lastOp.elements) :
             LET e == lastOp.elements[k] IN
             (/\ ~e.broken
              /\ e.title # ""
              /\ e.href # << >>
              /\ ~IsExcluded(lastOp.site_config,
                             ResolveLink(lastOp.site_config.url, e.href[1])))
             => \E j \in 1..Len(lastOp.items) :
                   lastOp.items[j].url =
                      ResolveLink(lastOp.site_config.url, e.href[1])

(***************************************************************************)
(* SpecStore: a sequence of Database.save_articles calls on an empty       *)
(* store.                                                                  *)
(***************************************************************************)
StoreUrls == {1, 2, 3}

StoreArticles ==
    [url : StoreUrls, unbindable : {FALSE}]
    \cup {[url |-> 3, unbindable |-> TRUE]}

InitStore ==
    /\ SetDInit(NewDeduplicator)
    /\ returned = << >>
    /\ lastOp = [op |-> "init"]
    /\ nCalls = 0
    /\ store = << >>
    /\ crawl_history = << >>
    /\ now = StartDay
    /\ config = [broken |-> FALSE, sites |-> << >>]
    /\ running = FALSE
    /\ sched = NoSched
    /\ run = [t \in Threads |-> NoRun]
    /\ nRuns = 0

SaveArticlesCall ==
    /\ nCalls < MaxCalls
    /\ \E articles \in SeqsUpTo(StoreArticles, MaxBatch) :
          LET r == save_articles(store, articles, now)
          IN /\ store' = r.rows
             /\ lastOp' = [op |-> "save_articles", before |-> store,
                           articles |-> articles, saved |-> r.saved]
    /\ nCalls' = nCalls + 1
    /\ UNCHANGED <<dedupVars, returned, crawl_history, now, config, running,
                   sched, run, nRuns>>

NextStore == SaveArticlesCall

SpecStore == InitStore /\ [][NextStore]_vars

(***************************************************************************)
(* C15: after any sequence of save_articles calls the store holds at most  *)
(* one row per URL; an article whose URL is already stored is skipped      *)
(* without failing the rest of the batch (the URL of every article of the  *)
(* batch whose insert does not raise is stored afterwards, the rows stored *)
(* before are kept), and the returned count is the number of rows the call *)
(* inserted.                                                               *)
(***************************************************************************)
C15_OneRowPerUrl ==
    /\ \A i, j \in 1..Len(store) : store[i].url = store[j].url => i = j
    /\ lastOp.op = "save_articles" =>
          /\ SubSeq(store, 1, Len(lastOp.before)) = lastOp.before
          /\ StoredUrls(store) =
                StoredUrls(lastOp.before)
                \cup {lastOp.articles[k].url :
                         k \in {j \in 1..Len(lastOp.articles) :
                                  ~lastOp.articles[j].unbindable}}
          /\ lastOp.saved = Len(store) - Len(lastOp.before)

\* a call whose first article was already stored and whose second was new
C15_Witness ==
    /\ lastOp.op = "save_articles"
    /\ Len(lastOp.articles) = 2
    /\ lastOp.articles[1].url \in StoredUrls(lastOp.before)
    /\ lastOp.articles[2].url \notin StoredUrls(lastOp.before)
    /\ lastOp.saved = 1

(***************************************************************************)
(* C16: run_once() with an empty configured source list returns an empty   *)
(* batch, records zero CrawlOutcomes and passes nothing to the Article     *)
(* Store's save or to the notifiers.  (Under SpecRun, where the source     *)
(* list is read from the configuration without failure.)                   *)
(***************************************************************************)
C16_EmptySourceList ==
    (~config.broken /\ config.sites = << >>) =>
       /\ Frame("main").pc \notin {"save", "notify"}
       /\ Frame("main").result # "raised"
       /\ Frame("main").recorded = << >>
       /\ crawl_history = << >>
       /\ store \in StoreHistories
       /\ Frame("main").pc = "done" =>
             /\ Frame("main").result = "returned"
             /\ Frame("main").batch = << >>

\* a run_once over an empty source list that has returned
C16_Witness ==
    /\ ~config.broken
    /\ config.sites = << >>
    /\ Frame("main").pc = "done"
    /\ Frame("main").websites = << >>
    /\ Frame("main").result = "returned"

(***************************************************************************)
(* Daemon mode (main.py cmd_daemon): the time of day of the daily trigger  *)
(* from the command line and the configuration.                            *)
(***************************************************************************)
LastHour == 23              \* --hour, 0-23

LastMinute == 59            \* --minute, 0-59

DefaultHour == 8            \* scheduler.hour when the configuration has none

DefaultMinute == 0          \* scheduler.minute when the configuration has none

\* Python's `a or b` for an int-or-None a
PyOr(a, b) == IF a = << >> \/ a[1] = 0 THEN b ELSE a[1]

\* dict.get(key, default) on the scheduler section of the configuration
ConfigGet(section, key, default) ==
    IF key \in DOMAIN section THEN section[key] ELSE default

\* cmd_daemon, lines 138-144: the trigger that scheduler.start(hour, minute)
\* registers through add_daily_task
cmd_daemon_trigger(args, scheduler_config) ==
    LET hour == PyOr(args.hour, ConfigGet(scheduler_config, "hour", DefaultHour))
        minute == PyOr(args.minute,
                       ConfigGet(scheduler_config, "minute", DefaultMinute))
    IN CronTrigger(hour, minute)

\* the scheduler section: absent keys, or a configured time of day
SchedulerSections == {[type |-> "apscheduler"],
                      [type |-> "apscheduler", hour |-> 6, minute |-> 30]}

DaemonArgs ==
    [hour : {<< >>} \cup {<<h>> : h \in 0..LastHour},
     minute : {<< >>} \cup {<<m>> : m \in 0..LastMinute}]

InitDaemon ==
    /\ OrchUnused
    /\ SetDInit(NewDeduplicator)
    /\ returned = << >>
    /\ nCalls = 0
    /\ \E args \in DaemonArgs, section \in SchedulerSections :
          lastOp = [op |-> "input", args |-> args, scheduler_config |-> section]

CmdDaemonCall ==
    /\ UNCHANGED orchVars
    /\ lastOp.op = "input"
    /\ lastOp' = [op |-> "cmd_daemon", args |-> lastOp.args,
                  scheduler_config |-> lastOp.scheduler_config,
                  trigger |-> cmd_daemon_trigger(lastOp.args,
                                                 lastOp.scheduler_config)]
    /\ UNCHANGED <<seen_urls, seen_hashes, title_index, returned, nCalls>>

NextDaemon == CmdDaemonCall

SpecDaemon == InitDaemon /\ [][NextDaemon]_vars

(***************************************************************************)
(* C20: for every hour h in 0..23 and minute m in 0..59 requested for      *)
(* daemon mode, the daily trigger is registered at exactly h:m, including  *)
(* h = 0 and m = 0.                                                        *)
(***************************************************************************)
C20_TriggerAtRequestedTime ==
    (/\ lastOp.op = "cmd_daemon"
     /\ lastOp.args.hour # << >>
     /\ lastOp.args.minute # << >>)
    => lastOp.trigger = CronTrigger(lastOp.args.hour[1], lastOp.args.minute[1])

\* the part of C20 that holds: every requested hour and minute other than 0
\* is registered as requested; a requested 0 is replaced by the configured
\* (or default) value
C20_NonZeroTimes ==
    lastOp.op = "cmd_daemon" =>
       /\ (lastOp.args.hour # << >> /\ lastOp.args.hour[1] # 0)
             => lastOp.trigger.hour = lastOp.args.hour[1]
       /\ (lastOp.args.minute # << >> /\ lastOp.args.minute[1] # 0)
             => lastOp.trigger.minute = lastOp.args.minute[1]
       /\ (lastOp.args.hour \in {<< >>, <<0>>})
             => lastOp.trigger.hour =
                   ConfigGet(lastOp.scheduler_config, "hour", DefaultHour)
       /\ (lastOp.args.minute \in {<< >>, <<0>>})
             => lastOp.trigger.minute =
                   ConfigGet(lastOp.scheduler_config, "minute", DefaultMinute)

(***************************************************************************)
(* The extractor (extractors/article_extractor.py).  A string is a         *)
(* sequence of tokens: "Y" is a group of four digits, "m", "d", "H", "M",  *)
(* "S" are groups of two, "z" is a UTC offset, "frac" a fraction of a      *)
(* second, "w" a word, the rest are the characters themselves.  The digit  *)
(* groups of every string spell the same instant, FieldValue.  A document  *)
(* is what BeautifulSoup finds in it: the content of the two meta tags,    *)
(* the datetime attribute of the first time element, and the elements      *)
(* that carry a class, in document order.  None is << >>, a value v <<v>>. *)
(***************************************************************************)
FieldValue == [Y |-> 2026, m |-> 1, d |-> 22, H |-> 8, M |-> 0, S |-> 0]

\* what datetime.strptime leaves in a field the format does not name
FieldDefault == [Y |-> 1900, m |-> 1, d |-> 1, H |-> 0, M |-> 0, S |-> 0]

FieldTokens == {"Y", "m", "d", "H", "M", "S"}

InSeqOf(q) == {q[k] : k \in 1..Len(q)}

\* runs of spaces in a string collapse to one (a space of a strptime
\* format matches one or more)
RECURSIVE SqueezeSpaces(_)
SqueezeSpaces(q) ==
    IF Len(q) < 2 THEN q
    ELSE IF q[1] = " " /\ q[2] = " " THEN SqueezeSpaces(Tail(q))
         ELSE <<q[1]>> \o SqueezeSpaces(Tail(q))

\* _parse_time, lines 146-157
formats ==
    << <<"Y","-","m","-","d","T","H",":","M",":","S","z">>,
       <<"Y","-","m","-","d","T","H",":","M",":","S">>,
       <<"Y","-","m","-","d"," ","H",":","M",":","S">>,
       <<"Y","-","m","-","d"," ","H",":","M">>,
       <<"Y","-","m","-","d">>,
       <<"Y","/","m","/","d"," ","H",":","M",":","S">>,
       <<"Y","/","m","/","d"," ","H",":","M">>,
       <<"Y","/","m","/","d">>,
       <<"m","yue","d","ri"," ","H",":","M">>,
       <<"m","yue","d","ri">> >>

\* datetime.strptime(time_str, fmt): << >> for ValueError, else the datetime
strptime(time_str, fmt) ==
    IF SqueezeSpaces(time_str) = fmt
    THEN <<[f \in FieldTokens |->
               IF f \in InSeqOf(fmt) THEN FieldValue[f] ELSE FieldDefault[f]]
           @@ [tz |-> "z" \in InSeqOf(fmt)]>>
    ELSE << >>

RECURSIVE ParseWith(_, _)
ParseWith(time_str, k) ==
    IF k > Len(formats) THEN << >>
    ELSE IF strptime(time_str, formats[k]) # << >>
         THEN strptime(time_str, formats[k])
         ELSE ParseWith(time_str, k + 1)

\* ArticleExtractor._parse_time
_parse_time(time_str) ==
    IF time_str = << >> THEN << >> ELSE ParseWith(time_str, 1)

\* _extract_publish_time, lines 93-100: pre \s* post
time_patterns ==
    << [pre |-> <<"Y","-","m","-","d">>, post |-> <<"H",":","M",":","S">>],
       [pre |-> <<"Y","-","m","-","d">>, post |-> <<"H",":","M">>],
       [pre |-> <<"Y","-","m","-","d">>, post |-> << >>],
       [pre |-> <<"Y","/","m","/","d">>, post |-> << >>],
       [pre |-> <<"m","yue","d","ri">>, post |-> <<"H",":","M">>],
       [pre |-> <<"m","yue","d","ri">>, post |-> << >>] >>

MaxSpaces == 2              \* longest run of spaces in a text

Spaces(n) == [k \in 1..n |-> " "]

\* the substrings of text that start at i and match the pattern
MatchesAt(pattern, text, i) ==
    {sub \in {SubSeq(text, i, j) : j \in i..Len(text)} :
        \E n \in 0..(IF pattern.post = << >> THEN 0 ELSE MaxSpaces) :
           sub = pattern.pre \o Spaces(n) \o pattern.post}

\* re.search(pattern, text): the leftmost match, << >> when there is none
re_search(pattern, text) ==
    LET starts == {i \in 1..Len(text) : MatchesAt(pattern, text, i) # {}}
    IN IF starts = {} THEN << >>
       ELSE LET i == CHOOSE s \in starts : \A o \in starts : s <= o
            IN <<CHOOSE sub \in MatchesAt(pattern, text, i) : TRUE>>

\* _extract_publish_time, lines 117-126
time_selectors ==
    <<".publish-time", ".publish-time span", ".article-time", ".post-time",
      ".time", ".date", "[class*=time]", "[class*=date]">>

\* the classes whose name contains "time", and those that contain "date"
ClassesWithTime == {"publish-time", "article-time", "post-time", "time",
                    "update-time"}

ClassesWithDate == {"date", "update-time-date"}

\* does the element match the selector (a span inside a .publish-time
\* element is the element's span field)
SelectorMatches(selector, e) ==
    CASE selector = ".publish-time span" ->
            e.class = "publish-time" /\ e.span # << >>
      [] selector = "[class*=time]" ->
            e.class \in ClassesWithTime \cup {"update-time-date"}
      [] selector = "[class*=date]" -> e.class \in ClassesWithDate
      [] OTHER -> "." \o e.class = selector

\* soup.select_one(selector) followed by get_text(strip=True): the text of
\* the first matching element, << >> when none matches
select_one_text(elements, selector) ==
    LET hits == {k \in 1..Len(elements) : SelectorMatches(selector, elements[k])}
    IN IF hits = {} THEN << >>
       ELSE LET k == CHOOSE h \in hits : \A o \in hits : h <= o
            IN IF selector = ".publish-time span"
               THEN <<elements[k].span[1]>>
               ELSE <<elements[k].text>>

\* lines 132-137: the patterns tried on one text, from the p-th on
RECURSIVE TryPatterns(_, _)
TryPatterns(text, p) ==
    IF p > Len(time_patterns) THEN << >>
    ELSE LET match == re_search(time_patterns[p], text)
             dt == IF match = << >> THEN << >> ELSE _parse_time(match[1])
         IN IF dt # << >> THEN dt ELSE TryPatterns(text, p + 1)

\* lines 128-137: the selectors tried, from the s-th on
RECURSIVE TrySelectors(_, _)
TrySelectors(elements, s) ==
    IF s > Len(time_selectors) THEN << >>
    ELSE LET elem == select_one_text(elements, time_selectors[s])
             dt == IF elem = << >> THEN << >> ELSE TryPatterns(elem[1], 1)
         IN IF dt # << >> THEN dt ELSE TrySelectors(elements, s + 1)

\* `tag and tag.get(attr)`: the tag exists and the attribute is not empty
HasValue(attr) == attr # << >> /\ attr[1] # << >>

\* ArticleExtractor._extract_publish_time
_extract_publish_time(soup) ==
    IF HasValue(soup.meta_published) THEN _parse_time(soup.meta_published[1])
    ELSE IF HasValue(soup.meta_pubdate) THEN _parse_time(soup.meta_pubdate[1])
    ELSE IF HasValue(soup.time_datetime) THEN _parse_time(soup.time_datetime[1])
    ELSE TrySelectors(soup.elements, 1)

\* time strings: ISO with seconds, the same with a fraction and an offset,
\* a date, a date and time with and without the space, a Chinese date, and
\* a text without any date
IsoTime == <<"Y","-","m","-","d","T","H",":","M",":","S">>

IsoFraction == IsoTime \o <<"frac", "z">>

DateOnly == <<"Y","-","m","-","d">>

TimeTexts ==
    {<<"w">> \o DateOnly \o <<" ">> \o <<"H",":","M",":","S">>,
     DateOnly \o <<"H",":","M",":","S">>,
     <<"m","yue","d","ri">> \o <<" "," ">> \o <<"H",":","M">>,
     <<"w">>}

MaxDocElements == 2         \* elements with a class in one document

DocElements ==
    [class : {"publish-time", "time", "date", "update-time-date"},
     text : TimeTexts, span : {<< >>}]
    \cup {[class |-> "publish-time", text |-> <<"w">> \o DateOnly,
           span |-> <<DateOnly>>]}

TimeDocs ==
    [meta_published : {<< >>, << << >> >>, <<IsoTime>>, <<IsoFraction>>},
     meta_pubdate : {<< >>, <<DateOnly>>, <<<<"w">>>>},
     time_datetime : {<< >>, <<IsoTime>>, <<IsoFraction>>},
     elements : SeqsUpTo(DocElements, MaxDocElements)]

InitPublishTime ==
    /\ OrchUnused
    /\ SetDInit(NewDeduplicator)
    /\ returned = << >>
    /\ nCalls = 0
    /\ \E soup \in TimeDocs : lastOp = [op |-> "input", soup |-> soup]

ExtractPublishTimeCall ==
    /\ UNCHANGED orchVars
    /\ lastOp.op = "input"
    /\ lastOp' = [op |-> "_extract_publish_time", soup |-> lastOp.soup,
                  publish_time |-> _extract_publish_time(lastOp.soup)]
    /\ UNCHANGED <<seen_urls, seen_hashes, title_index, returned, nCalls>>

NextPublishTime == ExtractPublishTimeCall

SpecPublishTime == InitPublishTime /\ [][NextPublishTime]_vars

(***************************************************************************)
(* C21: the publish-time cascade tries, in order, the published-time meta  *)
(* tag, the pub-date meta tag, the time element's datetime attribute and   *)
(* then the class-based selectors, and returns the first value that        *)
(* parses; publish_time is absent only when no source of the cascade       *)
(* yields a parseable time.  A published_time of "2026-01-22T08:00:00"     *)
(* yields 2026-01-22 08:00:00.                                             *)
(***************************************************************************)
\* what each source of the cascade yields, in the order of the cascade
SourceValues(soup) ==
    <<IF HasValue(soup.meta_published)
         THEN _parse_time(soup.meta_published[1]) ELSE << >>,
      IF HasValue(soup.meta_pubdate)
         THEN _parse_time(soup.meta_pubdate[1]) ELSE << >>,
      IF HasValue(soup.time_datetime)
         THEN _parse_time(soup.time_datetime[1]) ELSE << >>,
      TrySelectors(soup.elements, 1)>>

FirstParsed(values) ==
    IF \A k \in 1..Len(values) : values[k] = << >> THEN << >>
    ELSE values[CHOOSE k \in 1..Len(values) :
                   /\ values[k] # << >>
                   /\ \A j \in 1..(k - 1) : values[j] = << >>]

C21_FirstParseableSourceWins ==
    lastOp.op = "_extract_publish_time" =>
       /\ lastOp.publish_time = FirstParsed(SourceValues(lastOp.soup))
       /\ lastOp.soup.meta_published = <<IsoTime>> =>
             lastOp.publish_time =
                <<[Y |-> 2026, m |-> 1, d |-> 22, H |-> 8, M |-> 0, S |-> 0,
                   tz |-> FALSE]>>

\* the part of C21 that holds: the first source that is present decides,
\* whether its value parses or not; the class-based selectors are reached
\* only when the two meta tags and the time element are absent or empty,
\* and among them the first parseable match wins
C21_FirstPresentSourceDecides ==
    lastOp.op = "_extract_publish_time" =>
       LET soup == lastOp.soup
           present == {k \in 1..3 :
                          HasValue(<<soup.meta_published, soup.meta_pubdate,
                                     soup.time_datetime>>[k])}
       IN /\ present # {} =>
                lastOp.publish_time =
                   SourceValues(soup)[CHOOSE k \in present :
                                         \A j \in present : k <= j]
          /\ present = {} => lastOp.publish_time = SourceValues(soup)[4]
          /\ soup.meta_published = <<IsoTime>> =>
                lastOp.publish_time =
                   <<[Y |-> 2026, m |-> 1, d |-> 22, H |-> 8, M |-> 0,
                      S |-> 0, tz |-> FALSE]>>

\* a value parsed from the text of a class-based element, the earlier
\* patterns having matched a substring that no format parses
C21_SelectorFallback ==
    /\ lastOp.op = "_extract_publish_time"
    /\ lastOp.soup.meta_published = << >>
    /\ lastOp.soup.meta_pubdate = << >>
    /\ lastOp.soup.time_datetime = << >>
    /\ lastOp.soup.elements # << >>
    /\ lastOp.soup.elements[1].text = DateOnly \o <<"H",":","M",":","S">>
    /\ lastOp.publish_time # << >>
    /\ lastOp.publish_time[1].H = 0

(***************************************************************************)
(* The title cascade (_extract_title).  A document is the sequence of its  *)
(* elements that a title selector can match, in document order: the tag,   *)
(* the class, whether the element lies inside an article element, and the  *)
(* text as a sequence of characters.                                       *)
(***************************************************************************)
\* _extract_title, lines 66-74
title_selectors ==
    <<"article h1", ".article-title", ".post-title", ".entry-title",
      "h1.title", "h1", "title">>

MinTitleLen == 5            \* len(text) > 5

TitleSelectorMatches(selector, e) ==
    CASE selector = "article h1" -> e.tag = "h1" /\ e.in_article
      [] selector = "h1.title" -> e.tag = "h1" /\ e.class = "title"
      [] selector = "h1" -> e.tag = "h1"
      [] selector = "title" -> e.tag = "title"
      [] selector = ".article-title" -> e.class = "article-title"
      [] selector = ".post-title" -> e.class = "post-title"
      [] selector = ".entry-title" -> e.class = "entry-title"

\* str.strip()
RECURSIVE LStrip(_)
LStrip(text) ==
    IF text # << >> /\ text[1] = " " THEN LStrip(Tail(text)) ELSE text

\* elem.get_text(strip=True)
get_text(text) == Reverse(LStrip(Reverse(LStrip(text))))

\* a select_one that takes the last element that matches
select_one_last(elements, selector) ==
    LET hits == {k \in 1..Len(elements) :
                    TitleSelectorMatches(selector, elements[k])}
    IN IF hits = {} THEN << >>
       ELSE <<elements[CHOOSE h \in hits : \A o \in hits : h >= o]>>

\* soup.select_one(selector): << >> or the first element that matches
select_one(elements, selector) ==
    LET hits == {k \in 1..Len(elements) :
                    TitleSelectorMatches(selector, elements[k])}
    IN IF hits = {} THEN << >>
       ELSE <<elements[CHOOSE h \in hits : \A o \in hits : h <= o]>>

\* lines 76-81: the selectors tried, from the s-th on; << >> when none
\* yields a text of more than 5 characters
RECURSIVE TryTitleSelectors(_, _)
TryTitleSelectors(elements, s) ==
    IF s > Len(title_selectors) THEN << >>
    ELSE LET elem == select_one(elements, title_selectors[s])
             text == IF elem = << >> THEN << >> ELSE get_text(elem[1].text)
         IN IF elem # << >> /\ text # << >> /\ Len(text) > MinTitleLen
            THEN <<text>>
            ELSE TryTitleSelectors(elements, s + 1)

\* ArticleExtractor._extract_title
_extract_title(elements) ==
    LET found == TryTitleSelectors(elements, 1)
        title_tag == select_one(elements, "title")
    IN IF found # << >> THEN found[1]
       ELSE IF title_tag # << >> THEN get_text(title_tag[1].text)
       ELSE << >>

MaxTitleElements == 3       \* elements of one document that a selector matches

LongText == <<"a", "b", "c", "d", "e", "f">>

ShortText == <<"g", "h", "i", "j", "k">>

PaddedText == <<" ", "l", "m", "n", "o", " ">>

SiteText == <<"p", "q", "r", "s", "t", "u", "v">>

TitleElements ==
    [tag : {"h1"}, class : {"", "title"}, in_article : {FALSE},
     text : {LongText, ShortText, PaddedText}]
    \cup [tag : {"h1"}, class : {""}, in_article : {TRUE},
          text : {LongText, ShortText, PaddedText}]
    \cup [tag : {"div"}, class : {"article-title", "post-title", "entry-title"},
          in_article : {FALSE}, text : {LongText, ShortText, PaddedText}]
    \cup [tag : {"title"}, class : {""}, in_article : {FALSE},
          text : {SiteText, PaddedText}]

InitTitleCascade ==
    /\ OrchUnused
    /\ SetDInit(NewDeduplicator)
    /\ returned = << >>
    /\ nCalls = 0
    /\ \E elements \in SeqsUpTo(TitleElements, MaxTitleElements) :
          lastOp = [op |-> "input", elements |-> elements]

ExtractTitleCall ==
    /\ UNCHANGED orchVars
    /\ lastOp.op = "input"
    /\ lastOp' = [op |-> "_extract_title", elements |-> lastOp.elements,
                  title |-> _extract_title(lastOp.elements)]
    /\ UNCHANGED <<seen_urls, seen_hashes, title_index, returned, nCalls>>

NextTitleCascade == ExtractTitleCall

SpecTitleCascade == InitTitleCascade /\ [][NextTitleCascade]_vars

(***************************************************************************)
(* C22: for every document that has both an h1 element with more than 5    *)
(* characters of text and a title tag, the extractor returns the h1 text   *)
(* as the title; in general the title is the text of the first selector    *)
(* of the ordered cascade whose match is longer than 5 characters, else    *)
(* the raw title tag, else the empty string.                               *)
(***************************************************************************)
StrippedLen(e) == Len(get_text(e.text))

\* the selectors whose first match has a text of more than 5 characters
LongSelectors(elements) ==
    {s \in 1..Len(title_selectors) :
        \E k \in 1..Len(elements) :
           /\ TitleSelectorMatches(title_selectors[s], elements[k])
           /\ \A j \in 1..(k - 1) :
                 ~TitleSelectorMatches(title_selectors[s], elements[j])
           /\ StrippedLen(elements[k]) > 5}

FirstMatchText(elements, selector) ==
    LET k == CHOOSE i \in 1..Len(elements) :
                /\ TitleSelectorMatches(selector, elements[i])
                /\ \A j \in 1..(i - 1) :
                      ~TitleSelectorMatches(selector, elements[j])
    IN get_text(elements[k].text)

\* the general rule of the cascade
CascadeRule(elements, title) ==
    IF LongSelectors(elements) # {}
    THEN title = FirstMatchText(elements,
                    title_selectors[CHOOSE s \in LongSelectors(elements) :
                                       \A o \in LongSelectors(elements) : s <= o])
    ELSE IF \E k \in 1..Len(elements) : elements[k].tag = "title"
         THEN title = FirstMatchText(elements, "title")
         ELSE title = << >>

HasLongH1(elements) ==
    \E k \in 1..Len(elements) :
       elements[k].tag = "h1" /\ StrippedLen(elements[k]) > 5

HasTitleTag(elements) == \E k \in 1..Len(elements) : elements[k].tag = "title"

IsTextOfLongH1(elements, title) ==
    \E k \in 1..Len(elements) :
       /\ elements[k].tag = "h1"
       /\ StrippedLen(elements[k]) > 5
       /\ title = get_text(elements[k].text)

\* C22 as stated
C22_H1ChosenForEveryDocument ==
    lastOp.op = "_extract_title" =>
       /\ (HasLongH1(lastOp.elements) /\ HasTitleTag(lastOp.elements))
             => IsTextOfLongH1(lastOp.elements, lastOp.title)
       /\ CascadeRule(lastOp.elements, lastOp.title)

\* C22, amended: the general rule holds for every document; the h1 text is
\* chosen over the title tag when the first h1 of the document is the long
\* one and no element of class article-title, post-title or entry-title
\* comes with a text of more than 5 characters
C22_CascadeRule ==
    lastOp.op = "_extract_title" =>
       /\ CascadeRule(lastOp.elements, lastOp.title)
       /\ (/\ HasTitleTag(lastOp.elements)
           /\ 6 \in LongSelectors(lastOp.elements)
           /\ LongSelectors(lastOp.elements) \cap {2, 3, 4} = {})
             => IsTextOfLongH1(lastOp.elements, lastOp.title)

\* a document whose first h1 is long, with a title tag of more than 5
\* characters after it: the h1 text is returned, stripped
C22_Witness ==
    /\ lastOp.op = "_extract_title"
    /\ Len(lastOp.elements) = 3
    /\ lastOp.elements[1].tag = "h1"
    /\ lastOp.elements[1].text = LongText
    /\ lastOp.elements[2].tag = "h1"
    /\ lastOp.elements[3] = [tag |-> "title", class |-> "", in_article |-> FALSE,
                             text |-> SiteText]
    /\ lastOp.title = LongText

\* a document with a short first h1, a long second h1 and a title tag: the
\* title tag is returned
C22_ShortFirstH1 ==
    /\ lastOp.op = "_extract_title"
    /\ Len(lastOp.elements) = 3
    /\ lastOp.elements[1].tag = "h1"
    /\ StrippedLen(lastOp.elements[1]) <= 5
    /\ lastOp.elements[2].tag = "h1"
    /\ StrippedLen(lastOp.elements[2]) > 5
    /\ lastOp.elements[3].tag = "title"
    /\ lastOp.title = get_text(lastOp.elements[3].text)
    /\ lastOp.title # get_text(lastOp.elements[2].text)

====
